---- MODULE Spec2Model ----
(***************************************************************************)
(* Model of the nostr proxy relay: one client connection handled by        *)
(* proxy_ws_with_pool (src/src/proxy/ws_proxy.rs), the per-connection      *)
(* FilterEngine (src/src/filter/engine.rs), the client message codec       *)
(* (src/src/nostr/message.rs) and the policy store tables they query.      *)
(***************************************************************************)
EXTENDS Integers, Sequences, FiniteSets, TLC

VARIABLES
    pool,                    \* TRUE iff proxy_ws_with_pool got Some(pool)
    client_ip,               \* <<>> (None) or <<ip>> (Some)
    ip_access_control,       \* table: set of rows [ip_address, banned]
    safelist,                \* table: set of rows [npub, flags, banned]
    req_kind_blacklist,      \* table: set of rows [kind_value, kind_min, kind_max, enabled]
    filter_rules,            \* table: set of rows [id, name, parsed_json, enabled, rule_order]
    connection_logs,         \* table: <<>> or <<row>> for this connection
    event_rejection_logs,    \* table: sequence of appended rows
    connection_log_id,       \* <<>> (None) or <<id>> (Some)
    openCalls,               \* number of executed connection_logs INSERTs
    closeCalls,              \* number of executed disconnected_at UPDATEs
    phase,                   \* position of proxy_ws_with_pool
    result,                  \* "none" while running, then "ok" / "err"
    c2bPc,                   \* position of the client -> backend flow
    b2cPc,                   \* position of the backend -> client flow
    clientIn,                \* frames read from the client socket, with the decision taken
    backendIn,               \* frames read from the backend socket, with the engine outcome
    backendOut,              \* frames written to the backend socket
    client_out,              \* the unbounded fan-in channel (queue)
    enqLog,                  \* every send executed on the fan-in channel
    clientOut,               \* frames written to the client socket
    client_sender,           \* state of the spawned sender task
    senderFailed,            \* TRUE once a client socket write failed
    kind1_created_at_by_id,  \* FilterEngine cache
    compiled_rules,          \* FilterEngine snapshot
    rules_loaded_at,         \* <<>> (None) or <<t>>
    peer,                    \* another connection over the same store: its engine and frames
    now,                     \* the monotonic clock (Instant::now), in seconds
    query,                   \* a filter query source and what the parser API returned for it
    faults                   \* number of store and socket failures so far

vars == <<pool, client_ip, ip_access_control, safelist, req_kind_blacklist,
          filter_rules, connection_logs, event_rejection_logs,
          connection_log_id, openCalls, closeCalls, phase, result, c2bPc,
          b2cPc, clientIn, backendIn, backendOut, client_out, enqLog,
          clientOut, client_sender, senderFailed, kind1_created_at_by_id,
          compiled_rules, rules_loaded_at, peer, now, query, faults>>

storeVars == <<ip_access_control, safelist, req_kind_blacklist, filter_rules>>
argVars == <<pool, client_ip>>
engineVars == <<kind1_created_at_by_id, compiled_rules, rules_loaded_at>>
peerVars == <<peer, now, query>>

(***************************************************************************)
(* Bounds                                                                  *)
(***************************************************************************)
\* total number of frames read from the two sockets of the connection
MaxFrames == 2
\* total number of failing store queries and socket operations
MaxFaults == 1
\* number of steps of the clock
MaxTicks == 4
\* number of AND, OR and NOT operators of a generated filter query
MaxOps == 2

(***************************************************************************)
(* Option values and JSON values                                           *)
(***************************************************************************)
None == <<>>
Some(x) == <<x>>
IsSome(o) == o # <<>>
Unwrap(o) == o[1]

JInvalid == [j |-> "invalid"]            \* a text that is not JSON
JStr(s) == [j |-> "str", s |-> s]
JBool(b) == [j |-> "bool", b |-> b]
JArr(a) == [j |-> "arr", a |-> a]
JObj(o) == [j |-> "obj", o |-> o]

\* Value::as_str
AsStr(v) == IF v.j = "str" THEN Some(v.s) ELSE None
\* Value::as_bool
AsBool(v) == IF v.j = "bool" THEN Some(v.b) ELSE None
\* arr.get(i), 0-based as in the source
Get(a, i) == IF i + 1 <= Len(a) THEN Some(a[i + 1]) ELSE None
\* arr.get(i).and_then(|v| v.as_str())
GetStr(a, i) == IF IsSome(Get(a, i)) THEN AsStr(Unwrap(Get(a, i))) ELSE None

(***************************************************************************)
(* Event (src/src/nostr/event.rs)                                          *)
(***************************************************************************)
EventFields == {"id", "pubkey", "created_at", "kind", "tags", "content", "sig"}

\* serde_json::from_value::<Event>: every field of the struct must be present
DecodeEvent(v) ==
    IF v.j = "obj" /\ EventFields \subseteq DOMAIN v.o
    THEN [ok |-> TRUE, event |-> v.o]
    ELSE [ok |-> FALSE]

RECURSIVE FindETag(_)
FindETag(tags) ==
    IF tags = <<>> THEN None
    ELSE IF Len(Head(tags)) >= 1 /\ Head(tags)[1] = "e" THEN Some(Head(tags))
    ELSE FindETag(Tail(tags))

first_e_tag_event_id(event) ==
    LET t == FindETag(event.tags) IN
    IF IsSome(t) /\ Len(Unwrap(t)) >= 2 THEN Some(Unwrap(t)[2]) ELSE None

(***************************************************************************)
(* pubkey_hex_to_npub: hex::decode then bech32 with hrp "npub"             *)
(***************************************************************************)
HexDigits == {"0", "1", "2", "4", "a", "b", "A", "B"}
HexVal(c) ==
    CASE c = "0" -> 0 [] c = "1" -> 1 [] c = "2" -> 2 [] c = "4" -> 4
      [] c \in {"a", "A"} -> 10 [] c \in {"b", "B"} -> 11

\* a pubkey is the sequence of its characters
HexDecode(s) ==
    IF Len(s) % 2 = 0 /\ \A i \in 1..Len(s) : s[i] \in HexDigits
    THEN [ok |-> TRUE,
          bytes |-> [i \in 1..(Len(s) \div 2) |->
                        16 * HexVal(s[2 * i - 1]) + HexVal(s[2 * i])]]
    ELSE [ok |-> FALSE]

pubkey_hex_to_npub(pubkey_hex) ==
    LET d == HexDecode(pubkey_hex) IN
    IF d.ok THEN [ok |-> TRUE, npub |-> [hrp |-> "npub", data |-> d.bytes]]
    ELSE [ok |-> FALSE]

(***************************************************************************)
(* Policy store contents                                                   *)
(***************************************************************************)
PkPost == <<"0", "1">>      \* safelist flags 1 (POST_ALLOWED)
PkBypass == <<"0", "2">>    \* safelist flags 2 (FILTER_BYPASS)
PkBanned == <<"0", "4">>    \* safelist row with banned = 1
PkNone == <<"0", "0">>      \* no safelist row
PkBad == <<"z", "z">>       \* not a hex string
PkFlagFour == <<"1", "4">>  \* safelist flags 4, banned = 0
PkAllFlags == <<"1", "1">>  \* safelist flags 7, banned = 0

NpubOf(pk) == pubkey_hex_to_npub(pk).npub

SafelistRows ==
    { [npub |-> NpubOf(PkPost), flags |-> 1, banned |-> 0],
      [npub |-> NpubOf(PkBypass), flags |-> 2, banned |-> 0],
      [npub |-> NpubOf(PkBanned), flags |-> 0, banned |-> 1],
      [npub |-> NpubOf(PkFlagFour), flags |-> 4, banned |-> 0],
      [npub |-> NpubOf(PkAllFlags), flags |-> 7, banned |-> 0] }

\* kind 5 by value, 10..12 by range, 8 only in a disabled entry, and an
\* entry with a single range bound (kind_min = 20)
KindBlacklistRows ==
    { [kind_value |-> Some(5), kind_min |-> None, kind_max |-> None, enabled |-> 1],
      [kind_value |-> None, kind_min |-> Some(10), kind_max |-> Some(12), enabled |-> 1],
      [kind_value |-> Some(8), kind_min |-> Some(8), kind_max |-> Some(8), enabled |-> 0],
      [kind_value |-> None, kind_min |-> Some(20), kind_max |-> None, enabled |-> 1] }

ClientIp == "10.0.0.1"

IpTables ==
    { {},
      {[ip_address |-> ClientIp, banned |-> 0]},
      {[ip_address |-> ClientIp, banned |-> 1]} }

(***************************************************************************)
(* Store queries; dbOk = FALSE is a failing query                          *)
(***************************************************************************)
Ok(v) == [ok |-> TRUE, val |-> v]
Err(c) == [ok |-> FALSE, cause |-> c]

\* SELECT ... FROM safelist WHERE npub = ?  (fetch_optional)
SafelistRow(npub) ==
    LET rows == {r \in safelist : r.npub = npub} IN
    IF rows = {} THEN None ELSE Some(CHOOSE r \in rows : TRUE)

\* (flags & bit) == bit, for a single bit
HasBit(flags, bit) == (flags \div bit) % 2 = 1

\* is_post_allowed with a missing row taken as allowed
is_post_allowed_NoRowAllowed(pubkey_hex, dbOk) ==
    LET n == pubkey_hex_to_npub(pubkey_hex) IN
    IF ~n.ok THEN Ok(FALSE)
    ELSE IF ~dbOk THEN Err("store")
    ELSE LET row == SafelistRow(n.npub) IN
         Ok(IF IsSome(row) THEN HasBit(Unwrap(row).flags, 1) ELSE TRUE)

is_post_allowed(pubkey_hex, dbOk) ==
    LET n == pubkey_hex_to_npub(pubkey_hex) IN
    IF ~n.ok THEN Ok(FALSE)
    ELSE IF ~dbOk THEN Err("store")
    ELSE LET row == SafelistRow(n.npub) IN
         Ok(IF IsSome(row) THEN HasBit(Unwrap(row).flags, 1) ELSE FALSE)

\* is_filter_bypass reading the POST_ALLOWED bit
is_filter_bypass_PostBit(pubkey_hex, dbOk) ==
    LET n == pubkey_hex_to_npub(pubkey_hex) IN
    IF ~n.ok THEN Err("npub")
    ELSE IF ~dbOk THEN Err("store")
    ELSE LET row == SafelistRow(n.npub) IN
         Ok(IF IsSome(row) THEN HasBit(Unwrap(row).flags, 1) ELSE FALSE)

is_filter_bypass(pubkey_hex, dbOk) ==
    LET n == pubkey_hex_to_npub(pubkey_hex) IN
    IF ~n.ok THEN Err("npub")
    ELSE IF ~dbOk THEN Err("store")
    ELSE LET row == SafelistRow(n.npub) IN
         Ok(IF IsSome(row) THEN HasBit(Unwrap(row).flags, 2) ELSE FALSE)

is_npub_banned(pubkey_hex, dbOk) ==
    LET n == pubkey_hex_to_npub(pubkey_hex) IN
    IF ~n.ok THEN Err("npub")
    ELSE IF ~dbOk THEN Err("store")
    ELSE LET row == SafelistRow(n.npub) IN
         Ok(IF IsSome(row) THEN Unwrap(row).banned = 1 ELSE FALSE)

\* WHERE enabled = 1 AND kind_value = ?
KindSingleMatch(r, kind) ==
    r.enabled = 1 /\ IsSome(r.kind_value) /\ Unwrap(r.kind_value) = kind

\* WHERE enabled = 1 AND kind_min IS NOT NULL AND kind_max IS NOT NULL
\*   AND ? BETWEEN kind_min AND kind_max
KindRangeMatch(r, kind) ==
    /\ r.enabled = 1
    /\ IsSome(r.kind_min)
    /\ IsSome(r.kind_max)
    /\ Unwrap(r.kind_min) <= kind
    /\ kind <= Unwrap(r.kind_max)

is_kind_blacklisted(kind, dbOk) ==
    IF ~dbOk THEN Err("store")
    ELSE IF \E r \in req_kind_blacklist : KindSingleMatch(r, kind) THEN Ok(TRUE)
    ELSE Ok(\E r \in req_kind_blacklist : KindRangeMatch(r, kind))

\* an IP lookup that ignores the banned column
is_ip_banned_NeverBanned(ip, dbOk) ==
    IF ~dbOk THEN Err("store") ELSE Ok(FALSE)

is_ip_banned(ip, dbOk) ==
    IF ~dbOk THEN Err("store")
    ELSE LET rows == {r \in ip_access_control : r.ip_address = ip} IN
         Ok(IF rows = {} THEN FALSE ELSE (CHOOSE r \in rows : TRUE).banned = 1)

\* the row log_rejection inserts; the insert itself may fail
RejectionRow(event, reason, ip_address) ==
    LET n == pubkey_hex_to_npub(event.pubkey) IN
    [event_id |-> event.id, pubkey_hex |-> event.pubkey,
     npub |-> IF n.ok THEN n.npub ELSE [hrp |-> "unknown", data |-> <<>>],
     ip_address |-> ip_address, kind |-> event.kind, reason |-> reason]

log_rejection(event, reason, ip_address, dbOk) ==
    IF dbOk THEN Ok(<<RejectionRow(event, reason, ip_address)>>)
    ELSE Err("log")

(***************************************************************************)
(* Client message codec (src/src/nostr/message.rs)                         *)
(***************************************************************************)
parse_client_msg(text) ==
    IF text.j = "invalid" THEN Err("Json")
    ELSE IF text.j # "arr" THEN Err("NotArray")
    ELSE IF ~IsSome(Get(text.a, 0)) THEN Err("MissingCommand")
    ELSE IF ~IsSome(GetStr(text.a, 0)) THEN Err("CommandNotString")
    ELSE LET cmd == Unwrap(GetStr(text.a, 0)) IN
         CASE cmd = "REQ" ->
                IF IsSome(GetStr(text.a, 1))
                THEN Ok([cmd |-> "Req", sub_id |-> Unwrap(GetStr(text.a, 1))])
                ELSE Err("Invalid")
           [] cmd = "CLOSE" ->
                IF IsSome(GetStr(text.a, 1))
                THEN Ok([cmd |-> "Close", sub_id |-> Unwrap(GetStr(text.a, 1))])
                ELSE Err("Invalid")
           [] cmd = "EVENT" ->
                IF ~IsSome(Get(text.a, 1)) THEN Err("Invalid")
                ELSE LET d == DecodeEvent(Unwrap(Get(text.a, 1))) IN
                     IF d.ok THEN Ok([cmd |-> "Event", event |-> d.event])
                     ELSE Err("Json")
           [] OTHER -> Err("UnsupportedCommand")

\* HashMap::insert
MapInsert(m, k, v) == [x \in DOMAIN m \cup {k} |-> IF x = k THEN v ELSE m[x]]
EmptyMap == [x \in {} |-> 0]

(***************************************************************************)
(* Filter query DSL (src/src/parser/filter_query.rs).  A source text is a  *)
(* string of ASCII characters, so that the index of a character is its     *)
(* byte offset; numbers have at most nine digits.                          *)
(***************************************************************************)
\* the ? operator on a Result: the error of r, or the rest of the function
\* applied to the value of r
Try(r, rest(_)) == IF r.ok THEN rest(r) ELSE r
\* match on a Result
MatchResult(r, on_ok(_), on_err(_)) == IF r.ok THEN on_ok(r) ELSE on_err(r)
\* let v = ...; rest
Bind(v, rest(_)) == rest(v)

ParseError(message, position) ==
    [ok |-> FALSE, message |-> message, position |-> position]

\* the character at byte offset p
CharAt(input, p) == SubSeq(input, p + 1, p + 1)

LowerLetters == "abcdefghijklmnopqrstuvwxyz"
UpperLetters == "ABCDEFGHIJKLMNOPQRSTUVWXYZ"
DigitChars == "0123456789"
CharsOf(s) == {SubSeq(s, i, i) : i \in 1..Len(s)}
IndexOf(s, c) == CHOOSE i \in 1..Len(s) : SubSeq(s, i, i) = c

is_whitespace(c) == c \in {" ", "\t", "\n", "\r"}
DigitSet == CharsOf(DigitChars)
UpperSet == CharsOf(UpperLetters)
LetterSet == CharsOf(LowerLetters) \cup UpperSet
is_ascii_digit(c) == c \in DigitSet
is_alphabetic(c) == c \in LetterSet
is_alphanumeric(c) == is_alphabetic(c) \/ is_ascii_digit(c)

\* str::to_lowercase
LowerChar(c) ==
    IF c \in UpperSet
    THEN SubSeq(LowerLetters, IndexOf(UpperLetters, c), IndexOf(UpperLetters, c))
    ELSE c
\* the Greek sigmas, the one letter whose lowercase depends on its place in
\* the word: the strings of the module are ASCII, and the capital sigma
\* (U+03A3), the small sigma (U+03C3) and the final small sigma (U+03C2)
\* are written with one ASCII character each
CapitalSigma == "$"
SmallSigma == "&"
FinalSigma == "~"
Sigmas == {CapitalSigma, SmallSigma, FinalSigma}
\* case_ignorable_then_cased of the standard library on the characters of s
\* from index i on, forwards (step 1) or backwards (step -1): the first
\* character that is not case-ignorable exists and is cased
RECURSIVE case_ignorable_then_cased(_, _, _)
case_ignorable_then_cased(s, i, step) ==
    IF i < 1 \/ i > Len(s) THEN FALSE
    ELSE IF SubSeq(s, i, i) \in {"'", ".", ":"}
    THEN case_ignorable_then_cased(s, i + step, step)
    ELSE is_alphabetic(SubSeq(s, i, i)) \/ SubSeq(s, i, i) \in Sigmas
\* map_uppercase_sigma: the capital sigma at index i of from becomes the
\* final sigma at the end of a word and the medial sigma elsewhere
map_uppercase_sigma(from, i) ==
    IF case_ignorable_then_cased(from, i - 1, -1)
       /\ ~case_ignorable_then_cased(from, i + 1, 1)
    THEN FinalSigma ELSE SmallSigma
RECURSIVE to_lowercase_from(_, _)
to_lowercase_from(s, i) ==
    IF i > Len(s) THEN ""
    ELSE (IF SubSeq(s, i, i) = CapitalSigma THEN map_uppercase_sigma(s, i)
          ELSE LowerChar(SubSeq(s, i, i))) \o to_lowercase_from(s, i + 1)
to_lowercase(s) == to_lowercase_from(s, 1)

\* Lexer::current_pos when the next unread character is at offset p: the
\* offset of the character consumed last (0 before the first next_char)
current_pos(p) == IF p = 0 THEN 0 ELSE p - 1

\* the rest of a comment, through the end of the line
RECURSIVE skip_comment(_, _)
skip_comment(input, p) ==
    IF p >= Len(input) THEN p
    ELSE IF CharAt(input, p) = "\n" THEN p + 1
    ELSE skip_comment(input, p + 1)

RECURSIVE skip_whitespace(_, _)
skip_whitespace(input, p) ==
    IF p >= Len(input) THEN p
    ELSE IF is_whitespace(CharAt(input, p)) THEN skip_whitespace(input, p + 1)
    ELSE IF CharAt(input, p) = "#" THEN skip_whitespace(input, skip_comment(input, p))
    ELSE p

Unescape(c) ==
    CASE c = "n" -> "\n" [] c = "t" -> "\t" [] c = "r" -> "\r"
      [] c = "\\" -> "\\" [] c = "\"" -> "\""

\* the loop of read_string: p is the offset of the next character, s the
\* string read so far, start the position taken on entry
RECURSIVE read_string_loop(_, _, _, _)
read_string_loop(input, p, s, start) ==
    IF p >= Len(input) THEN ParseError("Unterminated string", start)
    ELSE LET c == CharAt(input, p) IN
         IF c = "\"" THEN [ok |-> TRUE, s |-> s, next |-> p + 1]
         ELSE IF c = "\\"
         THEN IF p + 1 >= Len(input) THEN ParseError("Unterminated string", start)
              ELSE LET e == CharAt(input, p + 1) IN
                   IF e \in {"n", "t", "r", "\\", "\""}
                   THEN read_string_loop(input, p + 2, s \o Unescape(e), start)
                   ELSE ParseError("Unknown escape sequence: \\" \o e, p + 1)
         ELSE read_string_loop(input, p + 1, s \o c, start)

\* Lexer::read_string, called with the opening quote at offset p not yet
\* consumed: start is current_pos, the offset of the character before it
read_string(input, p) == read_string_loop(input, p + 1, "", current_pos(p))

RECURSIVE read_digits(_, _, _)
read_digits(input, p, n) ==
    IF p < Len(input) /\ is_ascii_digit(CharAt(input, p))
    THEN read_digits(input, p + 1, 10 * n + (IndexOf(DigitChars, CharAt(input, p)) - 1))
    ELSE [n |-> n, next |-> p]

read_number(input, p) ==
    LET negative == CharAt(input, p) = "-" IN
    Bind(read_digits(input, IF negative THEN p + 1 ELSE p, 0),
         LAMBDA d : [n |-> IF negative THEN 0 - d.n ELSE d.n, next |-> d.next])

RECURSIVE read_ident(_, _)
read_ident(input, p) ==
    IF p < Len(input) /\ (is_alphanumeric(CharAt(input, p)) \/ CharAt(input, p) = "_")
    THEN read_ident(input, p + 1)
    ELSE p

\* Token, with the payload of Ident and String in s and of Number in n
Token(t) == [t |-> t, s |-> "", n |-> 0]
\* an identifier token that folds the case of its name
TokenIdentFolded(s) == [t |-> "Ident", s |-> to_lowercase(s), n |-> 0]
TokenIdent(s) == [t |-> "Ident", s |-> s, n |-> 0]
TokenString(s) == [t |-> "String", s |-> s, n |-> 0]
TokenNumber(n) == [t |-> "Number", s |-> "", n |-> n]
Keywords ==
    {"and", "or", "not", "contains", "starts_with", "ends_with", "matches",
     "in", "not_in", "exists"}
KeywordToken(word) ==
    CASE word = "and" -> Token("And") [] word = "or" -> Token("Or")
      [] word = "not" -> Token("Not") [] word = "contains" -> Token("Contains")
      [] word = "starts_with" -> Token("StartsWith")
      [] word = "ends_with" -> Token("EndsWith")
      [] word = "matches" -> Token("Matches") [] word = "in" -> Token("In")
      [] word = "not_in" -> Token("NotIn") [] word = "exists" -> Token("Exists")

\* impl Display for Token
NumberDisplay(n) == IF n < 0 THEN "-" \o ToString(0 - n) ELSE ToString(n)
TokenDisplay(tok) ==
    CASE tok.t = "Ident" -> tok.s
      [] tok.t = "String" -> "\"" \o tok.s \o "\""
      [] tok.t = "Number" -> NumberDisplay(tok.n)
      [] tok.t = "Eq" -> "==" [] tok.t = "Ne" -> "!=" [] tok.t = "Gt" -> ">"
      [] tok.t = "Lt" -> "<" [] tok.t = "Ge" -> ">=" [] tok.t = "Le" -> "<="
      [] tok.t = "Contains" -> "contains" [] tok.t = "StartsWith" -> "starts_with"
      [] tok.t = "EndsWith" -> "ends_with" [] tok.t = "Matches" -> "matches"
      [] tok.t = "In" -> "in" [] tok.t = "NotIn" -> "not_in"
      [] tok.t = "Exists" -> "exists" [] tok.t = "And" -> "AND"
      [] tok.t = "Or" -> "OR" [] tok.t = "Not" -> "NOT"
      [] tok.t = "LParen" -> "(" [] tok.t = "RParen" -> ")"
      [] tok.t = "LBracket" -> "[" [] tok.t = "RBracket" -> "]"
      [] tok.t = "Comma" -> "," [] tok.t = "Dot" -> "." [] tok.t = "Eof" -> "EOF"

SpannedToken(token, start, end) ==
    [ok |-> TRUE, token |-> token, start |-> start, end |-> end]

Punctuation == {"(", ")", "[", "]", ",", "."}
PunctuationToken(c) ==
    CASE c = "(" -> Token("LParen") [] c = ")" -> Token("RParen")
      [] c = "[" -> Token("LBracket") [] c = "]" -> Token("RBracket")
      [] c = "," -> Token("Comma") [] c = "." -> Token("Dot")

\* Lexer::next_token after skip_whitespace: start is the offset of the next
\* unread character
next_token_at(input, start) ==
    LET c == CharAt(input, start)
        follows(x) == start + 1 < Len(input) /\ CharAt(input, start + 1) = x
    IN
    IF start >= Len(input) THEN SpannedToken(Token("Eof"), Len(input), Len(input))
    ELSE IF c = "\""
    THEN Try(read_string(input, start),
             LAMBDA r : SpannedToken(TokenString(r.s), start, r.next))
    ELSE IF is_ascii_digit(c)
            \/ (c = "-" /\ start + 1 < Len(input)
                   /\ is_ascii_digit(CharAt(input, start + 1)))
    THEN Bind(read_number(input, start),
              LAMBDA r : SpannedToken(TokenNumber(r.n), start, r.next))
    ELSE IF c \in Punctuation THEN SpannedToken(PunctuationToken(c), start, start + 1)
    ELSE IF c = "="
    THEN IF follows("=") THEN SpannedToken(Token("Eq"), start, start + 2)
         ELSE ParseError("Expected '==' but got '='", start)
    ELSE IF c = "!"
    THEN IF follows("=") THEN SpannedToken(Token("Ne"), start, start + 2)
         ELSE ParseError("Expected '!=' but got '!'", start)
    ELSE IF c = ">"
    THEN IF follows("=") THEN SpannedToken(Token("Ge"), start, start + 2)
         ELSE SpannedToken(Token("Gt"), start, start + 1)
    ELSE IF c = "<"
    THEN IF follows("=") THEN SpannedToken(Token("Le"), start, start + 2)
         ELSE SpannedToken(Token("Lt"), start, start + 1)
    ELSE IF is_alphabetic(c) \/ c = "_"
    THEN Bind(read_ident(input, start), LAMBDA end :
              Bind(SubSeq(input, start + 1, end), LAMBDA ident :
                   Bind(to_lowercase(ident), LAMBDA word :
                        SpannedToken(IF word \in Keywords THEN KeywordToken(word)
                                     ELSE IF word \in {"true", "false"}
                                     THEN TokenIdent(word)
                                     ELSE TokenIdent(ident),
                                     start, end))))
    ELSE ParseError("Unexpected character: '" \o c \o "'", start)

\* Lexer::next_token with the next unread character at offset p
next_token(input, p) == next_token_at(input, skip_whitespace(input, p))

\* Lexer::tokenize from offset p
RECURSIVE tokenize_from(_, _)
tokenize_from(input, p) ==
    Try(next_token(input, p), LAMBDA token :
        IF token.token.t = "Eof" THEN [ok |-> TRUE, tokens |-> <<token>>]
        ELSE Try(tokenize_from(input, token.end), LAMBDA rest :
                 [ok |-> TRUE, tokens |-> <<token>> \o rest.tokens]))

tokenize(input) == tokenize_from(input, 0)

(***************************************************************************)
(* AST (src/src/parser/filter_query_ast.rs)                                *)
(***************************************************************************)
ExprAnd(left, right) == [type |-> "And", left |-> left, right |-> right]
ExprOr(left, right) == [type |-> "Or", left |-> left, right |-> right]
ExprNot(expr) == [type |-> "Not", expr |-> expr]
Condition(field, op, value) ==
    [type |-> "Condition", field |-> field, op |-> op, value |-> value]

FieldSimple(name) == [type |-> "Simple", name |-> name]
FieldContentLength == [type |-> "ContentLength"]
FieldReferencedCreatedAt == [type |-> "ReferencedCreatedAt"]
FieldTag(tag_name) == [type |-> "Tag", tag_name |-> tag_name]
FieldTagCount(tag_name) == [type |-> "TagCount", tag_name |-> tag_name]
FieldTagValue(tag_name) == [type |-> "TagValue", tag_name |-> tag_name]

ValueString(s) == [type |-> "String", s |-> s]
ValueNumber(n) == [type |-> "Number", n |-> n]
ValueBool(b) == [type |-> "Bool", b |-> b]
ValueList(list) == [type |-> "List", list |-> list]
ValueField(field) == [type |-> "Field", field |-> field]

\* Field::name
FieldName(field) ==
    CASE field.type = "Simple" -> field.name
      [] field.type = "ContentLength" -> "content_length"
      [] field.type = "Tag" -> "tag[" \o field.tag_name \o "]"
      [] field.type = "TagCount" -> "tag[" \o field.tag_name \o "].count"
      [] field.type = "TagValue" -> "tag[" \o field.tag_name \o "].value"
      [] field.type = "ReferencedCreatedAt" -> "referenced_created_at"

(***************************************************************************)
(* Parser: tokens is the token vector, pos the index of the current token  *)
(* (from 0).  A parse function returns the value and the new pos, or a     *)
(* ParseError.                                                             *)
(***************************************************************************)
Parsed(val, pos) == [ok |-> TRUE, val |-> val, pos |-> pos]

Min(a, b) == IF a < b THEN a ELSE b
current(tokens, pos) == tokens[Min(pos, Len(tokens) - 1) + 1]
peek(tokens, pos) == current(tokens, pos).token
\* Parser::advance: the new pos (the token returned is current(tokens, pos))
advance(tokens, pos) == IF pos < Len(tokens) - 1 THEN pos + 1 ELSE pos

expect(tokens, pos, expected) ==
    IF peek(tokens, pos) = expected THEN Parsed(<<>>, advance(tokens, pos))
    ELSE ParseError("Expected '" \o TokenDisplay(expected) \o "' but got '"
                        \o TokenDisplay(peek(tokens, pos)) \o "'",
                    current(tokens, pos).start)

\* the tag branch of parse_field after the dot: pos is the index of the
\* property token, tag_name the name between the brackets
parse_tag_property(tokens, pos, tag_name) ==
    LET prop == current(tokens, pos).token
        p3 == advance(tokens, pos)
    IN  IF prop.t # "Ident"
        THEN ParseError("Expected 'count' or 'value' after '.'",
                        current(tokens, p3).start)
        ELSE IF prop.s = "count" THEN Parsed(FieldTagCount(tag_name), p3)
        ELSE IF prop.s = "value" THEN Parsed(FieldTagValue(tag_name), p3)
        ELSE ParseError("Unknown tag property: '" \o prop.s \o "'",
                        current(tokens, p3).start)

\* the tag branch of parse_field, after the identifier tag was consumed
parse_tag_field(tokens, pos) ==
    Try(expect(tokens, pos, Token("LBracket")), LAMBDA lb :
        LET name == current(tokens, lb.pos).token
            p1 == advance(tokens, lb.pos)
        IN
        IF name.t \notin {"Ident", "String"}
        THEN ParseError("Expected tag name", current(tokens, p1).start)
        ELSE Try(expect(tokens, p1, Token("RBracket")), LAMBDA rb :
                 IF peek(tokens, rb.pos) = Token("Dot")
                 THEN parse_tag_property(tokens, advance(tokens, rb.pos), name.s)
                 ELSE Parsed(FieldTag(name.s), rb.pos)))

parse_field(tokens, pos) ==
    LET token == current(tokens, pos)
        p1 == advance(tokens, pos)
    IN
    IF token.token.t = "Ident"
    THEN LET name == token.token.s IN
         IF name = "content_length" THEN Parsed(FieldContentLength, p1)
         ELSE IF name = "referenced_created_at" THEN Parsed(FieldReferencedCreatedAt, p1)
         ELSE IF name = "tag" THEN parse_tag_field(tokens, p1)
         ELSE Parsed(FieldSimple(name), p1)
    ELSE ParseError("Expected field name but got '" \o TokenDisplay(token.token) \o "'",
                    token.start)

\* the tokens of operators and the Operator each one gives, with its Display
OperatorTokens ==
    {"Eq", "Ne", "Gt", "Lt", "Ge", "Le", "Contains", "StartsWith", "EndsWith",
     "Matches", "In", "NotIn", "Exists"}

parse_operator(tokens, pos) ==
    LET token == current(tokens, pos) IN
    IF token.token.t \in OperatorTokens
    THEN Parsed(token.token.t, advance(tokens, pos))
    ELSE ParseError("Expected operator but got '" \o TokenDisplay(token.token) \o "'",
                    token.start)

RECURSIVE parse_value(_, _)
RECURSIVE parse_value_list(_, _, _)
\* the loop of the list branch: values holds the elements parsed so far
parse_value_list(tokens, pos, values) ==
    IF peek(tokens, pos) = Token("Comma")
    THEN Try(parse_value(tokens, advance(tokens, pos)),
             LAMBDA v : parse_value_list(tokens, v.pos, Append(values, v.val)))
    ELSE Parsed(values, pos)

parse_value(tokens, pos) ==
    LET token == current(tokens, pos) IN
    CASE token.token.t = "String" ->
            Parsed(ValueString(token.token.s), advance(tokens, pos))
      [] token.token.t = "Number" ->
            Parsed(ValueNumber(token.token.n), advance(tokens, pos))
      [] token.token.t = "Ident" ->
            IF token.token.s = "true" THEN Parsed(ValueBool(TRUE), advance(tokens, pos))
            ELSE IF token.token.s = "false"
            THEN Parsed(ValueBool(FALSE), advance(tokens, pos))
            ELSE Try(parse_field(tokens, pos),
                     LAMBDA field : Parsed(ValueField(field.val), field.pos))
      [] token.token.t = "LBracket" ->
            Try(IF peek(tokens, advance(tokens, pos)) = Token("RBracket")
                THEN Parsed(<<>>, advance(tokens, pos))
                ELSE Try(parse_value(tokens, advance(tokens, pos)),
                         LAMBDA first :
                             parse_value_list(tokens, first.pos, <<first.val>>)),
                LAMBDA values :
                    Try(expect(tokens, values.pos, Token("RBracket")),
                        LAMBDA rb : Parsed(ValueList(values.val), rb.pos)))
      [] OTHER ->
            ParseError("Expected value but got '" \o TokenDisplay(token.token) \o "'",
                       token.start)

parse_condition(tokens, pos) ==
    Try(parse_field(tokens, pos), LAMBDA field :
        Try(parse_operator(tokens, field.pos), LAMBDA op :
            Try(parse_value(tokens, op.pos), LAMBDA value :
                Parsed(Condition(field.val, op.val, value.val), value.pos))))

RECURSIVE parse_or_expr(_, _)
RECURSIVE parse_or_loop(_, _, _)
RECURSIVE parse_and_expr(_, _)
RECURSIVE parse_and_loop(_, _, _)
RECURSIVE parse_and_loop_right(_, _, _)
RECURSIVE parse_not_expr(_, _)
RECURSIVE parse_primary(_, _)

\* the while loop of parse_or_expr: left is the expression built so far
parse_or_loop(tokens, pos, left) ==
    IF peek(tokens, pos) = Token("Or")
    THEN Try(parse_and_expr(tokens, advance(tokens, pos)),
             LAMBDA right : parse_or_loop(tokens, right.pos, ExprOr(left, right.val)))
    ELSE Parsed(left, pos)

parse_or_expr(tokens, pos) ==
    Try(parse_and_expr(tokens, pos),
        LAMBDA left : parse_or_loop(tokens, left.pos, left.val))

\* a parse_and_expr that groups a chain of ANDs to the right
parse_and_loop_right(tokens, pos, left) ==
    IF peek(tokens, pos) = Token("And")
    THEN Try(parse_and_expr(tokens, advance(tokens, pos)),
             LAMBDA right : Parsed(ExprAnd(left, right.val), right.pos))
    ELSE Parsed(left, pos)

\* the while loop of parse_and_expr
parse_and_loop(tokens, pos, left) ==
    IF peek(tokens, pos) = Token("And")
    THEN Try(parse_not_expr(tokens, advance(tokens, pos)),
             LAMBDA right : parse_and_loop(tokens, right.pos, ExprAnd(left, right.val)))
    ELSE Parsed(left, pos)

parse_and_expr(tokens, pos) ==
    Try(parse_not_expr(tokens, pos),
        LAMBDA left : parse_and_loop(tokens, left.pos, left.val))

\* a parse_not_expr that takes a primary after NOT
parse_not_expr_flat(tokens, pos) ==
    IF peek(tokens, pos) = Token("Not")
    THEN Try(parse_primary(tokens, advance(tokens, pos)),
             LAMBDA expr : Parsed(ExprNot(expr.val), expr.pos))
    ELSE parse_primary(tokens, pos)

parse_not_expr(tokens, pos) ==
    IF peek(tokens, pos) = Token("Not")
    THEN Try(parse_not_expr(tokens, advance(tokens, pos)),
             LAMBDA expr : Parsed(ExprNot(expr.val), expr.pos))
    ELSE parse_primary(tokens, pos)

parse_primary(tokens, pos) ==
    IF peek(tokens, pos) = Token("LParen")
    THEN Try(parse_or_expr(tokens, advance(tokens, pos)), LAMBDA expr :
             Try(expect(tokens, expr.pos, Token("RParen")),
                 LAMBDA rp : Parsed(expr.val, rp.pos)))
    ELSE parse_condition(tokens, pos)

\* Parser::parse
ParserParse(tokens) ==
    Try(parse_or_expr(tokens, 0), LAMBDA expr :
        IF peek(tokens, expr.pos) # Token("Eof")
        THEN ParseError("Unexpected token: '"
                            \o TokenDisplay(peek(tokens, expr.pos)) \o "'",
                        current(tokens, expr.pos).start)
        ELSE Ok(expr.val))

\* parse: the AST, or the error of the lexer or of the parser
parse(input) == Try(tokenize(input), LAMBDA tokens : ParserParse(tokens.tokens))

(***************************************************************************)
(* Compiler and evaluator                                                  *)
(***************************************************************************)
\* str::contains, str::starts_with, str::ends_with
str_contains(s, pat) ==
    \E i \in 0..(Len(s) - Len(pat)) : SubSeq(s, i + 1, i + Len(pat)) = pat
str_starts_with(s, pat) == Len(pat) <= Len(s) /\ SubSeq(s, 1, Len(pat)) = pat
str_ends_with(s, pat) ==
    Len(pat) <= Len(s) /\ SubSeq(s, Len(s) - Len(pat) + 1, Len(s)) = pat

\* the regex crate, for the patterns of this model: a pattern is rejected
\* when a bracket or a parenthesis is left open, and a pattern without
\* metacharacters matches the strings that contain it
CountChar(s, c) == Cardinality({i \in 1..Len(s) : SubSeq(s, i, i) = c})
RegexNew(pattern) ==
    IF CountChar(pattern, "[") > CountChar(pattern, "]")
    THEN [ok |-> FALSE, e |-> "unclosed character class"]
    ELSE IF CountChar(pattern, "(") # CountChar(pattern, ")")
    THEN [ok |-> FALSE, e |-> "unclosed group"]
    ELSE [ok |-> TRUE, val |-> [pattern |-> pattern]]
is_match(re, s) == str_contains(s, re.pattern)

\* CompiledFilter::compile_regexes: the cache after the walk, or the error
RECURSIVE compile_regexes(_, _)
compile_regexes(expr, cache) ==
    CASE expr.type \in {"And", "Or"} ->
            Try(compile_regexes(expr.left, cache),
                LAMBDA l : compile_regexes(expr.right, l.val))
      [] expr.type = "Not" -> compile_regexes(expr.expr, cache)
      [] expr.type = "Condition" ->
            IF expr.op = "Matches" /\ expr.value.type = "String"
               /\ expr.value.s \notin DOMAIN cache
            THEN MatchResult(RegexNew(expr.value.s),
                             LAMBDA re : Ok(MapInsert(cache, expr.value.s, re.val)),
                             LAMBDA re : ParseError("Invalid regex: " \o re.e, 0))
            ELSE Ok(cache)

\* CompiledFilter::compile
CompiledFilter(ast, regex_cache) == [ast |-> ast, regex_cache |-> regex_cache]
CompiledFilterCompile(ast) ==
    Try(compile_regexes(ast, EmptyMap), LAMBDA r : Ok(CompiledFilter(ast, r.val)))

\* enum FieldValue
FieldValueString(s) == [type |-> "String", s |-> s]
FieldValueNumber(n) == [type |-> "Number", n |-> n]
FieldValueBool(b) == [type |-> "Bool", b |-> b]

\* the text of a pubkey, and of the bech32 encoding of an npub (the data
\* part is rendered byte by byte)
RECURSIVE Concat(_)
Concat(seq) == IF seq = <<>> THEN "" ELSE Head(seq) \o Concat(Tail(seq))
Bech32String(npub) ==
    npub.hrp \o "1" \o Concat([i \in DOMAIN npub.data |-> "x" \o ToString(npub.data[i])])

TagsNamed(event, tag_name) ==
    SelectSeq(event.tags, LAMBDA t : Len(t) >= 1 /\ t[1] = tag_name)

get_field_value(field, event, kind1_cache) ==
    CASE field.type = "Simple" ->
            (CASE field.name = "id" -> Some(FieldValueString(event.id))
               [] field.name = "pubkey" -> Some(FieldValueString(Concat(event.pubkey)))
               [] field.name = "npub" ->
                    IF pubkey_hex_to_npub(event.pubkey).ok
                    THEN Some(FieldValueString(
                             Bech32String(pubkey_hex_to_npub(event.pubkey).npub)))
                    ELSE None
               [] field.name = "kind" -> Some(FieldValueNumber(event.kind))
               [] field.name = "created_at" -> Some(FieldValueNumber(event.created_at))
               [] field.name = "content" -> Some(FieldValueString(event.content))
               [] OTHER -> None)
      [] field.type = "ContentLength" -> Some(FieldValueNumber(Len(event.content)))
      [] field.type = "Tag" ->
            IF TagsNamed(event, field.tag_name) # <<>> THEN Some(FieldValueBool(TRUE))
            ELSE None
      [] field.type = "TagCount" ->
            Some(FieldValueNumber(Len(TagsNamed(event, field.tag_name))))
      [] field.type = "TagValue" ->
            LET tags == TagsNamed(event, field.tag_name) IN
            IF tags # <<>> /\ Len(Head(tags)) >= 2
            THEN Some(FieldValueString(Head(tags)[2]))
            ELSE None
      [] field.type = "ReferencedCreatedAt" ->
            LET id == first_e_tag_event_id(event) IN
            IF IsSome(id) /\ Unwrap(id) \in DOMAIN kind1_cache
            THEN Some(FieldValueNumber(kind1_cache[Unwrap(id)]))
            ELSE None

\* the field a field-ref value resolves to, when it has the type asked for
ResolvedAs(type, value, event, kind1_cache) ==
    Bind(get_field_value(value.field, event, kind1_cache),
         LAMBDA b : IF IsSome(b) /\ Unwrap(b).type = type THEN b ELSE None)

\* a compare_eq that does not resolve a field-ref on the right-hand side
compare_eq_literals(field_value, value, event, kind1_cache) ==
    CASE field_value.type = "String" /\ value.type = "String" -> field_value.s = value.s
      [] field_value.type = "Number" /\ value.type = "Number" -> field_value.n = value.n
      [] field_value.type = "Bool" /\ value.type = "Bool" -> field_value.b = value.b
      [] OTHER -> FALSE

compare_eq(field_value, value, event, kind1_cache) ==
    CASE field_value.type = "String" /\ value.type = "String" -> field_value.s = value.s
      [] field_value.type = "Number" /\ value.type = "Number" -> field_value.n = value.n
      [] field_value.type = "Bool" /\ value.type = "Bool" -> field_value.b = value.b
      [] field_value.type = "Number" /\ value.type = "Field" ->
            LET b == ResolvedAs("Number", value, event, kind1_cache) IN
            IsSome(b) /\ field_value.n = Unwrap(b).n
      [] field_value.type = "String" /\ value.type = "Field" ->
            LET b == ResolvedAs("String", value, event, kind1_cache) IN
            IsSome(b) /\ field_value.s = Unwrap(b).s
      [] OTHER -> FALSE

\* compare_numeric with the closure of the operator
NumericCmp(op, a, b) ==
    CASE op = "Gt" -> a > b [] op = "Lt" -> a < b
      [] op = "Ge" -> a >= b [] op = "Le" -> a <= b
compare_numeric(field_value, value, event, kind1_cache, op) ==
    CASE field_value.type = "Number" /\ value.type = "Number" ->
            NumericCmp(op, field_value.n, value.n)
      [] field_value.type = "Number" /\ value.type = "Field" ->
            LET b == ResolvedAs("Number", value, event, kind1_cache) IN
            IsSome(b) /\ NumericCmp(op, field_value.n, Unwrap(b).n)
      [] OTHER -> FALSE

\* a membership test that asks every element of the list to be equal
list_all(field_value, list, event, kind1_cache) ==
    \A i \in 1..Len(list) : compare_eq(field_value, list[i], event, kind1_cache)

\* list.iter().any(|v| self.compare_eq(field_value, v, event, kind1_cache))
list_any(field_value, list, event, kind1_cache) ==
    \E i \in 1..Len(list) : compare_eq(field_value, list[i], event, kind1_cache)

compare(self, field_value, op, value, event, kind1_cache) ==
    LET strings == field_value.type = "String" /\ value.type = "String" IN
    CASE op = "Eq" -> compare_eq(field_value, value, event, kind1_cache)
      [] op = "Ne" -> ~compare_eq(field_value, value, event, kind1_cache)
      [] op \in {"Gt", "Lt", "Ge", "Le"} ->
            compare_numeric(field_value, value, event, kind1_cache, op)
      [] op = "Contains" ->
            strings /\ str_contains(to_lowercase(field_value.s), to_lowercase(value.s))
      [] op = "StartsWith" ->
            strings /\ str_starts_with(to_lowercase(field_value.s), to_lowercase(value.s))
      [] op = "EndsWith" ->
            strings /\ str_ends_with(to_lowercase(field_value.s), to_lowercase(value.s))
      [] op = "Matches" ->
            /\ strings
            /\ value.s \in DOMAIN self.regex_cache
            /\ is_match(self.regex_cache[value.s], field_value.s)
      [] op = "In" ->
            /\ value.type = "List"
            /\ list_any(field_value, value.list, event, kind1_cache)
      [] op = "NotIn" ->
            \/ value.type # "List"
            \/ ~list_any(field_value, value.list, event, kind1_cache)
      [] op = "Exists" -> TRUE

\* an evaluate_condition that lets the negated operators hold of an absent field
evaluate_condition_negating(self, cond, event, kind1_cache) ==
    Bind(get_field_value(cond.field, event, kind1_cache), LAMBDA field_value :
         IF cond.op = "Exists" THEN IsSome(field_value)
         ELSE IF ~IsSome(field_value) THEN cond.op \in {"Ne", "NotIn"}
         ELSE compare(self, Unwrap(field_value), cond.op, cond.value, event,
                      kind1_cache))

evaluate_condition(self, cond, event, kind1_cache) ==
    Bind(get_field_value(cond.field, event, kind1_cache), LAMBDA field_value :
         IF cond.op = "Exists" THEN IsSome(field_value)
         ELSE IF ~IsSome(field_value) THEN FALSE
         ELSE compare(self, Unwrap(field_value), cond.op, cond.value, event,
                      kind1_cache))

RECURSIVE evaluate(_, _, _, _)
evaluate(self, expr, event, kind1_cache) ==
    CASE expr.type = "And" ->
            evaluate(self, expr.left, event, kind1_cache)
                /\ evaluate(self, expr.right, event, kind1_cache)
      [] expr.type = "Or" ->
            evaluate(self, expr.left, event, kind1_cache)
                \/ evaluate(self, expr.right, event, kind1_cache)
      [] expr.type = "Not" -> ~evaluate(self, expr.expr, event, kind1_cache)
      [] expr.type = "Condition" -> evaluate_condition(self, expr, event, kind1_cache)

\* CompiledFilter::matches
matches(filter, event, kind1_cache) == evaluate(filter, filter.ast, event, kind1_cache)

\* parse and compile a source text
compile(input) == Try(parse(input), LAMBDA ast : CompiledFilterCompile(ast.val))

(***************************************************************************)
(* extract_fields and validate                                             *)
(***************************************************************************)
\* the characters of field names in the order of their codes; the rank of
\* a character stands for its code
NameChars == ".0123456789ABCDEFGHIJKLMNOPQRSTUVWXYZ[]_abcdefghijklmnopqrstuvwxyz"
CharCode(c) == IndexOf(NameChars, c)

\* the order of String: byte by byte, a proper prefix first
RECURSIVE StrLess(_, _)
StrLess(a, b) ==
    IF Len(b) = 0 THEN FALSE
    ELSE IF Len(a) = 0 THEN TRUE
    ELSE IF SubSeq(a, 1, 1) # SubSeq(b, 1, 1)
    THEN CharCode(SubSeq(a, 1, 1)) < CharCode(SubSeq(b, 1, 1))
    ELSE StrLess(SubSeq(a, 2, Len(a)), SubSeq(b, 2, Len(b)))

\* Vec::sort and Vec::dedup on strings
RECURSIVE SortInsert(_, _)
SortInsert(sorted, s) ==
    IF sorted = <<>> THEN <<s>>
    ELSE IF StrLess(s, Head(sorted)) THEN <<s>> \o sorted
    ELSE <<Head(sorted)>> \o SortInsert(Tail(sorted), s)
RECURSIVE sort(_)
sort(v) == IF v = <<>> THEN <<>> ELSE SortInsert(sort(SubSeq(v, 1, Len(v) - 1)), v[Len(v)])
RECURSIVE dedup(_)
dedup(v) ==
    IF Len(v) <= 1 THEN v
    ELSE IF v[1] = v[2] THEN dedup(Tail(v))
    ELSE <<v[1]>> \o dedup(Tail(v))

RECURSIVE extract_fields_recursive(_)
extract_fields_recursive(expr) ==
    CASE expr.type \in {"And", "Or"} ->
            extract_fields_recursive(expr.left) \o extract_fields_recursive(expr.right)
      [] expr.type = "Not" -> extract_fields_recursive(expr.expr)
      [] expr.type = "Condition" ->
            <<FieldName(expr.field)>>
                \o (IF expr.value.type = "Field" THEN <<FieldName(expr.value.field)>>
                    ELSE <<>>)

extract_fields(expr) == dedup(sort(extract_fields_recursive(expr)))

\* struct ValidationResult
ValidationSuccess(ast, fields_used) ==
    [valid |-> TRUE, ast |-> Some(ast), fields_used |-> Some(fields_used),
     error |-> None, position |-> None]
ValidationError(message, position) ==
    [valid |-> FALSE, ast |-> None, fields_used |-> None,
     error |-> Some(message), position |-> Some(position)]

\* a validate that stops after parsing
validate_parse_only(input) ==
    MatchResult(parse(input),
                LAMBDA ast : ValidationSuccess(ast.val, extract_fields(ast.val)),
                LAMBDA e : ValidationError(e.message, e.position))

validate(input) ==
    MatchResult(parse(input),
                LAMBDA ast :
                    MatchResult(CompiledFilterCompile(ast.val),
                                LAMBDA c : ValidationSuccess(ast.val,
                                                             extract_fields(ast.val)),
                                LAMBDA e : ValidationError(e.message, e.position)),
                LAMBDA e : ValidationError(e.message, e.position))

(***************************************************************************)
(* Filter rules of the store: parsed_json holds the DSL source             *)
(***************************************************************************)
\* two enabled rules on kind 9, a rule that does not compile between them,
\* and a disabled rule that would come first
FilterRuleRows ==
    { [id |-> 7, name |-> "kind9", parsed_json |-> "kind == 9",
       enabled |-> 1, rule_order |-> 0],
      [id |-> 8, name |-> "broken", parsed_json |-> "kind ==",
       enabled |-> 1, rule_order |-> 1],
      [id |-> 3, name |-> "kind9 again", parsed_json |-> "kind == 9",
       enabled |-> 1, rule_order |-> 2],
      [id |-> 1, name |-> "off", parsed_json |-> "kind == 9",
       enabled |-> 0, rule_order |-> 0] }

\* the bodies of the POST requests that create a rule: a rule on the
\* blacklisted kind 5 and on reactions, and a rule on notes
FiveOrSeven == [name |-> "five or seven", nl_text |-> "kind in [5, 7]"]
Notes == [name |-> "notes", nl_text |-> "kind == 1"]
CreateBodies == {FiveOrSeven, Notes}

(***************************************************************************)
(* FilterEngine (src/src/filter/engine.rs)                                 *)
(***************************************************************************)
\* FilterEngine::new, and the struct with given field values
FilterEngine(cache, rules, loaded) ==
    [kind1_created_at_by_id |-> cache, compiled_rules |-> rules,
     rules_loaded_at |-> loaded]
new == FilterEngine(EmptyMap, <<>>, None)

EngineQueries == {"banned", "kind", "rules", "bypass", "bypass2", "log"}
\* at most one failing query per evaluation: the first failure ends it
FailChoices == {{}} \cup {{q} : q \in EngineQueries}

\* WHERE enabled = 1
EnabledRows(rows) == {r \in rows : r.enabled = 1}

\* ORDER BY rule_order ASC, id ASC
RuleBefore(a, b) ==
    a.rule_order < b.rule_order \/ (a.rule_order = b.rule_order /\ a.id < b.id)

RECURSIVE OrderRows(_)
OrderRows(rows) ==
    IF rows = {} THEN <<>>
    ELSE LET first == CHOOSE r \in rows : \A o \in rows \ {r} : RuleBefore(r, o)
         IN  <<first>> \o OrderRows(rows \ {first})

\* filter_query::compile(&parsed_json) for the source texts of the store;
\* the result for each text is computed once
CompiledSource ==
    [input \in {r.parsed_json : r \in FilterRuleRows} \cup {b.nl_text : b \in CreateBodies}
        |-> compile(input)]

\* a compile loop that stops at the first rule that does not compile
RECURSIVE CompileRowsStopAtError(_)
CompileRowsStopAtError(rows) ==
    IF rows = <<>> THEN <<>>
    ELSE LET r == Head(rows) IN
         Bind(CompiledSource[r.parsed_json], LAMBDA c :
             IF c.ok
             THEN <<[id |-> r.id, name |-> r.name, filter |-> c.val]>>
                      \o CompileRowsStopAtError(Tail(rows))
             ELSE <<>>)

RECURSIVE CompileRows(_)
CompileRows(rows) ==
    IF rows = <<>> THEN <<>>
    ELSE LET r == Head(rows) IN
         Bind(CompiledSource[r.parsed_json], LAMBDA c :
             IF c.ok
             THEN <<[id |-> r.id, name |-> r.name, filter |-> c.val]>>
                      \o CompileRows(Tail(rows))
             ELSE CompileRows(Tail(rows)))

\* reload_rules: the new snapshot, or the failure of the fetch
reload_rules(dbOk) ==
    IF ~dbOk THEN Err("store") ELSE Ok(CompileRows(OrderRows(EnabledRows(filter_rules))))

\* a rule loop that keeps the last matching rule
RECURSIVE LastMatch(_, _, _)
LastMatch(rules, event, cache) ==
    IF rules = <<>> THEN None
    ELSE IF matches(rules[Len(rules)].filter, event, cache) THEN Some(rules[Len(rules)])
    ELSE LastMatch(SubSeq(rules, 1, Len(rules) - 1), event, cache)

RECURSIVE FirstMatch(_, _, _)
FirstMatch(rules, event, cache) ==
    IF rules = <<>> THEN None
    ELSE IF matches(Head(rules).filter, event, cache) THEN Some(Head(rules))
    ELSE FirstMatch(Tail(rules), event, cache)

RuleReason(id) == "filter_rule:" \o ToString(id)

\* outcome of one engine call: res is "pass", "drop" or "err"
Outcome(res, cause, reason, banned, logs, cache, rules, loaded) ==
    [res |-> res, cause |-> cause, reason |-> reason, banned |-> banned,
     logs |-> logs, kind1 |-> cache, rules |-> rules, loaded |-> loaded,
     reloaded |-> FALSE]

\* a legacy rule that drops on any cached target, whatever its created_at
LegacyRuleAnyTime(event, ip, fail, cache, rules, loaded) ==
    IF event.kind \notin {6, 7}
    THEN Outcome("pass", "none", "", "no", <<>>, cache, rules, loaded)
    ELSE LET bp == is_filter_bypass(event.pubkey, "bypass2" \notin fail)
             target == first_e_tag_event_id(event)
         IN
         IF ~bp.ok THEN Outcome("err", bp.cause, "", "no", <<>>, cache, rules, loaded)
         ELSE IF bp.val THEN Outcome("pass", "none", "", "no", <<>>, cache, rules, loaded)
         ELSE IF ~IsSome(target) THEN Outcome("pass", "none", "", "no", <<>>, cache, rules, loaded)
         ELSE IF Unwrap(target) \notin DOMAIN cache
              THEN Outcome("pass", "none", "", "no", <<>>, cache, rules, loaded)
         ELSE LET l == log_rejection(event, "bot_filter", ip, "log" \notin fail) IN
              IF l.ok THEN Outcome("drop", "none", "bot_filter", "no", l.val, cache, rules, loaded)
              ELSE Outcome("err", "log", "", "no", <<>>, cache, rules, loaded)

\* the legacy kind 6/7 rule, lines 211-229
LegacyRule(event, ip, fail, cache, rules, loaded) ==
    IF event.kind \notin {6, 7}
    THEN Outcome("pass", "none", "", "no", <<>>, cache, rules, loaded)
    ELSE LET bp == is_filter_bypass(event.pubkey, "bypass2" \notin fail)
             target == first_e_tag_event_id(event)
         IN
         IF ~bp.ok THEN Outcome("err", bp.cause, "", "no", <<>>, cache, rules, loaded)
         ELSE IF bp.val THEN Outcome("pass", "none", "", "no", <<>>, cache, rules, loaded)
         ELSE IF ~IsSome(target) THEN Outcome("pass", "none", "", "no", <<>>, cache, rules, loaded)
         ELSE IF Unwrap(target) \notin DOMAIN cache
              THEN Outcome("pass", "none", "", "no", <<>>, cache, rules, loaded)
         ELSE IF cache[Unwrap(target)] = event.created_at
              THEN LET l == log_rejection(event, "bot_filter", ip, "log" \notin fail) IN
                   IF l.ok THEN Outcome("drop", "none", "bot_filter", "no", l.val, cache, rules, loaded)
                   ELSE Outcome("err", "log", "", "no", <<>>, cache, rules, loaded)
         ELSE Outcome("pass", "none", "", "no", <<>>, cache, rules, loaded)

\* reload_rules_if_needed, lines 72-78: the cache duration, and whether the
\* last load is older than it; the clock is read in steps of TickStep seconds
CACHE_DURATION == 30
TickStep == CACHE_DURATION \div 2
Expired(self) ==
    IsSome(self.rules_loaded_at) /\ now - Unwrap(self.rules_loaded_at) > CACHE_DURATION

\* the rule loop of check_filter_rules over a loaded snapshot, lines 134-157,
\* followed by the legacy rule
RulesOutcome(rules, loaded, event, ip, fail, cache) ==
    LET bp == is_filter_bypass(event.pubkey, "bypass" \notin fail) IN
    Bind(FirstMatch(rules, event, cache), LAMBDA hit :
        IF ~bp.ok THEN Outcome("err", bp.cause, "", "no", <<>>, cache, rules, loaded)
        ELSE IF ~bp.val /\ IsSome(hit)
        THEN LET reason == RuleReason(Unwrap(hit).id)
                 l == log_rejection(event, reason, ip, "log" \notin fail)
             IN IF l.ok THEN Outcome("drop", "none", reason, "no", l.val, cache, rules, loaded)
                ELSE Outcome("err", "log", "", "no", <<>>, cache, rules, loaded)
        ELSE LegacyRule(event, ip, fail, cache, rules, loaded))

\* a check_filter_rules whose failed reload undoes the cache insert
CheckFilterRulesUndoing(self, event, ip, fail, expired, cache) ==
    LET should_reload == (self.rules_loaded_at = None) \/ expired
        loaded == IF should_reload THEN Some(now) ELSE self.rules_loaded_at
    IN
    Bind(IF should_reload THEN reload_rules("rules" \notin fail)
         ELSE Ok(self.compiled_rules), LAMBDA rl :
        IF ~rl.ok
        THEN Outcome("err", "store", "", "no", <<>>, self.kind1_created_at_by_id,
                     self.compiled_rules, self.rules_loaded_at)
        ELSE Bind(RulesOutcome(rl.val, loaded, event, ip, fail, cache), LAMBDA o :
                 [o EXCEPT !.reloaded = should_reload]))

\* a check_filter_rules that goes on with the snapshot it has when the
\* fetch fails
CheckFilterRulesKeepGoing(self, event, ip, fail, expired, cache) ==
    LET should_reload == (self.rules_loaded_at = None) \/ expired
        loaded == IF should_reload THEN Some(now) ELSE self.rules_loaded_at
    IN
    Bind(IF should_reload THEN reload_rules("rules" \notin fail)
         ELSE Ok(self.compiled_rules), LAMBDA rl :
        IF ~rl.ok
        THEN RulesOutcome(self.compiled_rules, self.rules_loaded_at, event, ip,
                          fail, cache)
        ELSE Bind(RulesOutcome(rl.val, loaded, event, ip, fail, cache), LAMBDA o :
                 [o EXCEPT !.reloaded = should_reload]))

\* check_filter_rules followed by the legacy rule, lines 126-157 and 206-229
CheckFilterRules(self, event, ip, fail, expired, cache) ==
    LET should_reload == (self.rules_loaded_at = None) \/ expired
        loaded == IF should_reload THEN Some(now) ELSE self.rules_loaded_at
    IN
    Bind(IF should_reload THEN reload_rules("rules" \notin fail)
         ELSE Ok(self.compiled_rules), LAMBDA rl :
        IF ~rl.ok
        THEN Outcome("err", "store", "", "no", <<>>, cache, self.compiled_rules,
                     self.rules_loaded_at)
        ELSE Bind(RulesOutcome(rl.val, loaded, event, ip, fail, cache), LAMBDA o :
                 [o EXCEPT !.reloaded = should_reload]))

\* the checks on a decoded event with the kind blacklist asked before the
\* npub ban
CheckEventKindFirst(self, event, ip, fail, expired) ==
    LET Same(res, cause, reason, banned, logs) ==
            Outcome(res, cause, reason, banned, logs, self.kind1_created_at_by_id,
                    self.compiled_rules, self.rules_loaded_at)
        bn == is_npub_banned(event.pubkey, "banned" \notin fail)
        kb == is_kind_blacklisted(event.kind, "kind" \notin fail)
    IN
    IF ~kb.ok THEN Same("err", kb.cause, "", "unknown", <<>>)
    ELSE IF kb.val
         THEN LET l == log_rejection(event, "kind_blacklist", ip, "log" \notin fail) IN
              IF l.ok THEN Same("drop", "none", "kind_blacklist", "unknown", l.val)
              ELSE Same("err", "log", "", "unknown", <<>>)
    ELSE IF ~bn.ok THEN Same("err", bn.cause, "", "unknown", <<>>)
    ELSE IF bn.val
         THEN LET l == log_rejection(event, "banned_npub", ip, "log" \notin fail) IN
              IF l.ok THEN Same("drop", "none", "banned_npub", "yes", l.val)
              ELSE Same("err", "log", "", "yes", <<>>)
    ELSE CheckFilterRules(self, event, ip, fail, expired,
             IF event.kind = 1
             THEN MapInsert(self.kind1_created_at_by_id, event.id, event.created_at)
             ELSE self.kind1_created_at_by_id)

\* the checks on a decoded event, lines 188-209
CheckEvent(self, event, ip, fail, expired) ==
    LET Same(res, cause, reason, banned, logs) ==
            Outcome(res, cause, reason, banned, logs, self.kind1_created_at_by_id,
                    self.compiled_rules, self.rules_loaded_at)
        bn == is_npub_banned(event.pubkey, "banned" \notin fail)
        kb == is_kind_blacklisted(event.kind, "kind" \notin fail)
    IN
    IF ~bn.ok THEN Same("err", bn.cause, "", "unknown", <<>>)
    ELSE IF bn.val
         THEN LET l == log_rejection(event, "banned_npub", ip, "log" \notin fail) IN
              IF l.ok THEN Same("drop", "none", "banned_npub", "yes", l.val)
              ELSE Same("err", "log", "", "yes", <<>>)
    ELSE IF ~kb.ok THEN Same("err", kb.cause, "", "no", <<>>)
    ELSE IF kb.val
         THEN LET l == log_rejection(event, "kind_blacklist", ip, "log" \notin fail) IN
              IF l.ok THEN Same("drop", "none", "kind_blacklist", "no", l.val)
              ELSE Same("err", "log", "", "no", <<>>)
    ELSE CheckFilterRules(self, event, ip, fail, expired,
             IF event.kind = 1
             THEN MapInsert(self.kind1_created_at_by_id, event.id, event.created_at)
             ELSE self.kind1_created_at_by_id)

\* self is the FilterEngine the method is called on
should_drop_backend_text_with_ip(self, text, ip, fail, expired) ==
    LET Same(res, cause) ==
            Outcome(res, cause, "", "na", <<>>, self.kind1_created_at_by_id,
                    self.compiled_rules, self.rules_loaded_at)
    IN
    IF text.j = "invalid" THEN Same("pass", "none")
    ELSE IF text.j # "arr" THEN Same("pass", "none")
    ELSE IF GetStr(text.a, 0) # Some("EVENT") THEN Same("pass", "none")
    ELSE IF ~IsSome(Get(text.a, 2)) THEN Same("err", "decode")
    ELSE LET d == DecodeEvent(Unwrap(Get(text.a, 2))) IN
         IF ~d.ok THEN Same("err", "decode")
         ELSE CheckEvent(self, d.event, ip, fail, expired)

(***************************************************************************)
(* Frames                                                                  *)
(***************************************************************************)
TextFrame(v) == [type |-> "Text", text |-> v]
BinaryFrame == [type |-> "Binary"]
PingFrame == [type |-> "Ping"]
PongFrame == [type |-> "Pong"]
CloseFrame == [type |-> "Close"]

EventObj(id, pk, kind, created_at, tags) ==
    JObj([id |-> id, pubkey |-> pk, created_at |-> created_at, kind |-> kind,
          tags |-> tags, content |-> "hello", sig |-> "sig"])
\* an object that lacks fields of Event
BadEventObj == JObj([id |-> "x"])

ClientEvent(pk) == TextFrame(JArr(<<JStr("EVENT"), EventObj("c1", pk, 1, 100, <<>>)>>))
ClientReq == TextFrame(JArr(<<JStr("REQ"), JStr("sub")>>))
ClientBadEvent == TextFrame(JArr(<<JStr("EVENT"), BadEventObj>>))
ClientClose == TextFrame(JArr(<<JStr("CLOSE"), JStr("sub")>>))
\* a REQ without its subscription id, a command the codec does not know,
\* a JSON value that is not an array, and a text that is not JSON
ClientReqNoSub == TextFrame(JArr(<<JStr("REQ")>>))
ClientUnsupported == TextFrame(JArr(<<JStr("AUTH"), JStr("x")>>))
ClientNonArray == TextFrame(JObj([id |-> "x"]))
ClientMalformed == TextFrame(JInvalid)

ClientFrames ==
    { ClientEvent(PkPost), ClientEvent(PkNone), ClientEvent(PkBypass),
      ClientEvent(PkBad), ClientReq, ClientBadEvent, BinaryFrame, CloseFrame }

BackendEvent(id, pk, kind) ==
    TextFrame(JArr(<<JStr("EVENT"), JStr("sub"), EventObj(id, pk, kind, 100, <<>>)>>))
BackendEventAt(id, pk, kind, created_at, tags) ==
    TextFrame(JArr(<<JStr("EVENT"), JStr("sub"), EventObj(id, pk, kind, created_at, tags)>>))
BackendOk(accepted) ==
    TextFrame(JArr(<<JStr("OK"), JStr("c1"), JBool(accepted), JStr("")>>))

\* serde_json::json!(["NOTICE", "blocked: not in safelist"]).to_string()
NoticeText == JArr(<<JStr("NOTICE"), JStr("blocked: not in safelist")>>)

BackendFrames ==
    { BackendEvent("b1", PkBanned, 1),
      BackendEvent("b2", PkBad, 5),
      BackendEvent("b3", PkNone, 5),
      BackendEvent("b4", PkNone, 11),
      BackendEvent("b5", PkNone, 8),
      BackendEvent("b6", PkNone, 20),
      TextFrame(JArr(<<JStr("EVENT"), JStr("sub"), BadEventObj>>)),
      TextFrame(JArr(<<JStr("EVENT"), JStr("sub")>>)),
      BackendOk(TRUE), BackendOk(FALSE),
      TextFrame(NoticeText), BinaryFrame, CloseFrame }

(***************************************************************************)
(* The fan-in channel                                                      *)
(***************************************************************************)
\* a send that puts the frame at the front of the queue
ChannelSendFront(q, item) == IF client_sender = "running" THEN <<item>> \o q ELSE q

\* UnboundedSender::send: fails once the receiver (the sender task) is gone
ChannelSend(q, item) == IF client_sender = "running" THEN Append(q, item) ELSE q

Item(src, n, frame) == [src |-> src, n |-> n, frame |-> frame]

Enqueue(src, n, frame) ==
    /\ client_out' = ChannelSend(client_out, Item(src, n, frame))
    /\ enqLog' = Append(enqLog, [src |-> src, n |-> n, frame |-> frame,
                                 accepted |-> (client_sender = "running")])

(***************************************************************************)
(* A call sequence on the API of the parser module: the source text, the   *)
(* expression it was written from (if it was generated from one) and what  *)
(* parse, compile, validate and two calls of CompiledFilter::matches       *)
(* returned                                                                *)
(***************************************************************************)
NewQuery(input, expr) ==
    [input |-> input, expr |-> expr, parsed |-> None, compiled |-> None,
     validated |-> None, matched |-> None, again |-> None]
NoQuery == NewQuery("", None)

(***************************************************************************)
(* Initial state: proxy_ws_with_pool has just been called                  *)
(***************************************************************************)
InitConnection ==
    /\ pool \in BOOLEAN
    /\ client_ip \in {None, Some(ClientIp)}
    /\ ip_access_control \in IpTables
    /\ safelist = SafelistRows
    /\ req_kind_blacklist = KindBlacklistRows
    /\ filter_rules = FilterRuleRows
    /\ connection_logs = None
    /\ event_rejection_logs = <<>>
    /\ connection_log_id = None
    /\ openCalls = 0
    /\ closeCalls = 0
    /\ phase = "IP_CHECK"
    /\ result = "none"
    /\ c2bPc = "recv"
    /\ b2cPc = "recv"
    /\ clientIn = <<>>
    /\ backendIn = <<>>
    /\ backendOut = <<>>
    /\ client_out = <<>>
    /\ enqLog = <<>>
    /\ clientOut = <<>>
    /\ client_sender = "none"
    /\ senderFailed = FALSE
    /\ kind1_created_at_by_id = new.kind1_created_at_by_id
    /\ compiled_rules = new.compiled_rules
    /\ rules_loaded_at = new.rules_loaded_at
    /\ peer = [filter_engine |-> new, frames |-> <<>>]
    /\ now = 0
    /\ faults = 0

Init ==
    /\ InitConnection
    /\ query = NoQuery

ioVars == <<clientIn, backendIn, backendOut, client_out, enqLog, clientOut,
            client_sender, senderFailed>>
flowVars == <<c2bPc, b2cPc>>
logVars == <<connection_logs, event_rejection_logs, connection_log_id,
             openCalls, closeCalls>>

\* a step in which k store queries or socket operations fail
Fault(k) == faults + k <= MaxFaults /\ faults' = faults + k
B2N(ok) == IF ok THEN 0 ELSE 1

(***************************************************************************)
(* Setup, lines 26-76 and 137-145                                          *)
(***************************************************************************)
\* the IP ban gate without the return of line 30
IpBanGateNoReturn(dbOk) ==
    /\ phase = "IP_CHECK"
    /\ Fault(B2N(dbOk))
    /\ LET b == IF pool /\ IsSome(client_ip)
                THEN is_ip_banned(Unwrap(client_ip), dbOk)
                ELSE Ok(FALSE)
       IN  IF ~b.ok THEN phase' = "CLOSED" /\ result' = "err"
           ELSE phase' = "LOGGING" /\ result' = result
    /\ UNCHANGED <<argVars, peerVars, storeVars, logVars, flowVars, ioVars, engineVars>>

\* the IP ban gate, lines 26-32
IpBanGate(dbOk) ==
    /\ phase = "IP_CHECK"
    /\ Fault(B2N(dbOk))
    /\ LET b == IF pool /\ IsSome(client_ip)
                THEN is_ip_banned(Unwrap(client_ip), dbOk)
                ELSE Ok(FALSE)
       IN  IF ~b.ok THEN phase' = "CLOSED" /\ result' = "err"
           ELSE IF b.val THEN phase' = "CLOSED" /\ result' = "ok"
           ELSE phase' = "LOGGING" /\ result' = result
    /\ UNCHANGED <<argVars, peerVars, storeVars, logVars, flowVars, ioVars, engineVars>>

NewConnectionRow == [event_count |-> 0, rejected_event_count |-> 0, disconnected_at |-> None]

\* the connection_logs INSERT, lines 34-57
OpenConnection(dbOk) ==
    /\ phase = "LOGGING"
    /\ Fault(B2N(dbOk))
    /\ IF pool /\ IsSome(client_ip)
       THEN /\ openCalls' = openCalls + 1
            /\ IF dbOk
               THEN /\ connection_logs' = Some(NewConnectionRow)
                    /\ connection_log_id' = Some(1)
               ELSE UNCHANGED <<connection_logs, connection_log_id>>
       ELSE UNCHANGED <<openCalls, connection_logs, connection_log_id>>
    /\ phase' = "DIALING"
    /\ UNCHANGED <<argVars, peerVars, storeVars, event_rejection_logs, closeCalls, result,
                   flowVars, ioVars, engineVars>>

\* connect_async, lines 61-71, then the spawn of the sender task
Dial(connected) ==
    /\ phase = "DIALING"
    /\ Fault(B2N(connected))
    /\ IF connected
       THEN phase' = "RUNNING" /\ client_sender' = "running" /\ result' = result
       ELSE phase' = "CLOSED" /\ result' = "err" /\ client_sender' = client_sender
    /\ UNCHANGED <<argVars, peerVars, storeVars, logVars, flowVars, engineVars, clientIn,
                   backendIn, backendOut, client_out, enqLog, clientOut, senderFailed>>

\* select! returns: a flow that ended with Ok leads to the drain, one that
\* ended with Err makes proxy_ws_with_pool return at once (r?)
FlowEnds(ok) ==
    IF ok THEN phase' = "DRAINING" /\ result' = result
    ELSE phase' = "CLOSED" /\ result' = "err"

FramesRead == Len(clientIn) + Len(backendIn)

\* UPDATE connection_logs SET <column> = <column> + 1 WHERE id = ?
\* an UPDATE that increments both counters
IncrementBothCounters(rows, column, dbOk) ==
    IF dbOk /\ IsSome(rows)
    THEN Some([Unwrap(rows) EXCEPT !.event_count = @ + 1,
                                   !.rejected_event_count = @ + 1])
    ELSE rows

\* UPDATE connection_logs SET <column> = <column> + 1 WHERE id = ?
IncrementCounter(rows, column, dbOk) ==
    IF dbOk /\ IsSome(rows)
    THEN Some([Unwrap(rows) EXCEPT ![column] = @ + 1])
    ELSE rows

(***************************************************************************)
(* client -> backend flow, lines 152-232                                   *)
(***************************************************************************)
\* the safelist check with a failed lookup taken as allowed
ClientDecisionFailOpen(frame, dbOk) ==
    IF frame.type # "Text" THEN [decision |-> "forward", lookup |-> "none"]
    ELSE LET m == parse_client_msg(frame.text) IN
         IF m.ok /\ m.val.cmd = "Event" /\ pool
         THEN LET a == is_post_allowed(m.val.event.pubkey, dbOk)
                  allowed == IF a.ok THEN a.val ELSE TRUE
              IN  [decision |-> IF allowed THEN "forward" ELSE "block",
                   lookup |-> IF ~a.ok THEN "err"
                              ELSE IF ~pubkey_hex_to_npub(m.val.event.pubkey).ok
                                   THEN "npub" ELSE "ok"]
         ELSE [decision |-> "forward", lookup |-> "none"]

\* the safelist check made whether or not there is a policy store
ClientDecisionAnyPool(frame, dbOk) ==
    IF frame.type # "Text" THEN [decision |-> "forward", lookup |-> "none"]
    ELSE LET m == parse_client_msg(frame.text) IN
         IF m.ok /\ m.val.cmd = "Event"
         THEN LET a == is_post_allowed(m.val.event.pubkey, dbOk)
                  allowed == IF a.ok THEN a.val ELSE FALSE
              IN  [decision |-> IF allowed THEN "forward" ELSE "block",
                   lookup |-> IF ~a.ok THEN "err"
                              ELSE IF ~pubkey_hex_to_npub(m.val.event.pubkey).ok
                                   THEN "npub" ELSE "ok"]
         ELSE [decision |-> "forward", lookup |-> "none"]

\* the decision on a client frame: the safelist check of lines 158-191
ClientDecision(frame, dbOk) ==
    IF frame.type # "Text" THEN [decision |-> "forward", lookup |-> "none"]
    ELSE LET m == parse_client_msg(frame.text) IN
         IF m.ok /\ m.val.cmd = "Event" /\ pool
         THEN LET a == is_post_allowed(m.val.event.pubkey, dbOk)
                  allowed == IF a.ok THEN a.val ELSE FALSE
              IN  [decision |-> IF allowed THEN "forward" ELSE "block",
                   lookup |-> IF ~a.ok THEN "err"
                              ELSE IF ~pubkey_hex_to_npub(m.val.event.pubkey).ok
                                   THEN "npub" ELSE "ok"]
         ELSE [decision |-> "forward", lookup |-> "none"]

\* client_rx.next() yields a frame; a client EVENT is checked against the safelist
C2bRecv(frame, dbOk) ==
    /\ phase = "RUNNING"
    /\ c2bPc = "recv"
    /\ FramesRead < MaxFrames
    /\ Fault(B2N(dbOk))
    /\ LET d == ClientDecision(frame, dbOk) IN
       /\ clientIn' = Append(clientIn, [frame |-> frame, decision |-> d.decision,
                                        lookup |-> d.lookup])
       /\ c2bPc' = IF d.decision = "block" THEN "reject" ELSE "send"
    /\ UNCHANGED <<argVars, peerVars, storeVars, logVars, phase, result, b2cPc, backendIn,
                   backendOut, client_out, enqLog, clientOut, client_sender,
                   senderFailed, engineVars>>

\* the blocked EVENT branch without the NOTICE of lines 184-185
C2bRejectNoNotice(logOk, updOk) ==
    /\ phase = "RUNNING"
    /\ c2bPc = "reject"
    /\ Fault(B2N(logOk) + B2N(updOk))
    /\ LET n == Len(clientIn)
           event == parse_client_msg(clientIn[n].frame.text).val.event
           l == log_rejection(event, "not_in_safelist", client_ip, logOk)
       IN  /\ event_rejection_logs' =
                  IF l.ok THEN event_rejection_logs \o l.val ELSE event_rejection_logs
           /\ connection_logs' =
                  IF IsSome(connection_log_id)
                  THEN IncrementCounter(connection_logs, "rejected_event_count", updOk)
                  ELSE connection_logs
    /\ c2bPc' = "recv"
    /\ UNCHANGED <<argVars, peerVars, storeVars, connection_log_id, openCalls, closeCalls,
                   phase, result, b2cPc, clientIn, backendIn, backendOut,
                   client_out, enqLog, clientOut, client_sender, senderFailed,
                   engineVars>>

\* the blocked EVENT branch, lines 169-187
C2bReject(logOk, updOk) ==
    /\ phase = "RUNNING"
    /\ c2bPc = "reject"
    /\ Fault(B2N(logOk) + B2N(updOk))
    /\ LET n == Len(clientIn)
           event == parse_client_msg(clientIn[n].frame.text).val.event
           l == log_rejection(event, "not_in_safelist", client_ip, logOk)
       IN  /\ event_rejection_logs' =
                  IF l.ok THEN event_rejection_logs \o l.val ELSE event_rejection_logs
           /\ connection_logs' =
                  IF IsSome(connection_log_id)
                  THEN IncrementCounter(connection_logs, "rejected_event_count", updOk)
                  ELSE connection_logs
           /\ Enqueue("c2b", n, TextFrame(NoticeText))
    /\ c2bPc' = "recv"
    /\ UNCHANGED <<argVars, peerVars, storeVars, connection_log_id, openCalls, closeCalls,
                   phase, result, b2cPc, clientIn, backendIn, backendOut,
                   clientOut, client_sender, senderFailed, engineVars>>

\* a forward step that skips the control frames (Ping, Pong)
C2bSendSkipsControl(sent) ==
    /\ phase = "RUNNING"
    /\ c2bPc = "send"
    /\ Fault(B2N(sent))
    /\ LET n == Len(clientIn)
           frame == clientIn[n].frame
       IN  IF sent
           THEN /\ backendOut' = IF frame.type \in {"Ping", "Pong"} THEN backendOut
                                  ELSE Append(backendOut, [n |-> n, frame |-> frame])
                /\ IF frame.type = "Close"
                   THEN FlowEnds(TRUE) /\ c2bPc' = "done"
                   ELSE c2bPc' = "recv" /\ UNCHANGED <<phase, result>>
           ELSE /\ FlowEnds(FALSE)
                /\ c2bPc' = "done"
                /\ backendOut' = backendOut
    /\ UNCHANGED <<argVars, peerVars, storeVars, logVars, b2cPc, clientIn, backendIn,
                   client_out, enqLog, clientOut, client_sender, senderFailed,
                   engineVars>>

\* backend_tx.send(frame).await?  (a Close frame ends the flow)
C2bSend(sent) ==
    /\ phase = "RUNNING"
    /\ c2bPc = "send"
    /\ Fault(B2N(sent))
    /\ LET n == Len(clientIn)
           frame == clientIn[n].frame
       IN  IF sent
           THEN /\ backendOut' = Append(backendOut, [n |-> n, frame |-> frame])
                /\ IF frame.type = "Close"
                   THEN FlowEnds(TRUE) /\ c2bPc' = "done"
                   ELSE c2bPc' = "recv" /\ UNCHANGED <<phase, result>>
           ELSE /\ FlowEnds(FALSE)
                /\ c2bPc' = "done"
                /\ backendOut' = backendOut
    /\ UNCHANGED <<argVars, peerVars, storeVars, logVars, b2cPc, clientIn, backendIn,
                   client_out, enqLog, clientOut, client_sender, senderFailed,
                   engineVars>>

\* client_rx.next() yields None (ok) or a read error (msg?)
C2bEnd(ok) ==
    /\ phase = "RUNNING"
    /\ c2bPc = "recv"
    /\ Fault(B2N(ok))
    /\ FlowEnds(ok)
    /\ c2bPc' = "done"
    /\ UNCHANGED <<argVars, peerVars, storeVars, logVars, b2cPc, ioVars, engineVars>>

(***************************************************************************)
(* backend -> client flow, lines 239-337                                   *)
(***************************************************************************)
\* an OK frame taken as such whatever its second element is
OkMessageAnyId(frame) ==
    IF frame.type = "Text" /\ frame.text.j = "arr"
       /\ GetStr(frame.text.a, 0) = Some("OK")
    THEN LET acc == Get(frame.text.a, 2) IN
         Some(IF IsSome(acc) /\ IsSome(AsBool(Unwrap(acc)))
              THEN Unwrap(AsBool(Unwrap(acc))) ELSE FALSE)
    ELSE None

\* lines 272-275: the frame is ["OK", <string>, ...]; the value is accepted
OkMessage(frame) ==
    IF frame.type = "Text" /\ frame.text.j = "arr"
       /\ GetStr(frame.text.a, 0) = Some("OK") /\ IsSome(GetStr(frame.text.a, 1))
    THEN LET acc == Get(frame.text.a, 2) IN
         Some(IF IsSome(acc) /\ IsSome(AsBool(Unwrap(acc)))
              THEN Unwrap(AsBool(Unwrap(acc))) ELSE FALSE)
    ELSE None

\* the engine of this connection (filter_engine, line 76)
filter_engine == FilterEngine(kind1_created_at_by_id, compiled_rules, rules_loaded_at)

NoOutcome(self) ==
    Outcome("none", "none", "", "na", <<>>, self.kind1_created_at_by_id,
            self.compiled_rules, self.rules_loaded_at)

\* an engine error handled like a drop
FilterVerdictErrDrops(o) == IF o.res \in {"drop", "err"} THEN "discard" ELSE "deliver"

\* what the flow does with the engine's answer, lines 245-256
FilterVerdict(o) == IF o.res = "drop" THEN "discard" ELSE "deliver"

\* backend_rx.next() yields a frame; a text frame goes through the engine
B2cRecv(frame, fail, expired) ==
    /\ phase = "RUNNING"
    /\ b2cPc = "recv"
    /\ FramesRead < MaxFrames
    /\ Fault(Cardinality(fail))
    /\ \E o \in {IF frame.type = "Text" /\ pool
                THEN should_drop_backend_text_with_ip(filter_engine, frame.text,
                                                      client_ip, fail, expired)
                ELSE NoOutcome(filter_engine)} :
       LET n == Len(backendIn) + 1
           account == IsSome(OkMessage(frame)) /\ pool /\ IsSome(connection_log_id)
       IN  /\ backendIn' = Append(backendIn,
                  [frame |-> frame, res |-> o.res, cause |-> o.cause,
                   reason |-> o.reason, banned |-> o.banned,
                   reloaded |-> o.reloaded])
           /\ event_rejection_logs' = event_rejection_logs \o o.logs
           /\ kind1_created_at_by_id' = o.kind1
           /\ compiled_rules' = o.rules
           /\ rules_loaded_at' = o.loaded
           /\ IF FilterVerdict(o) = "discard"
              THEN UNCHANGED <<client_out, enqLog, b2cPc, phase, result>>
              ELSE IF account
              THEN b2cPc' = "account" /\ UNCHANGED <<client_out, enqLog, phase, result>>
              ELSE /\ Enqueue("b2c", n, frame)
                   /\ IF frame.type = "Close"
                      THEN FlowEnds(TRUE) /\ b2cPc' = "done"
                      ELSE UNCHANGED <<b2cPc, phase, result>>
    /\ UNCHANGED <<argVars, peerVars, storeVars, connection_logs, connection_log_id,
                   openCalls, closeCalls, c2bPc, clientIn, backendOut, clientOut,
                   client_sender, senderFailed>>

\* the OK accounting UPDATE, lines 279-297, then the send of line 308
B2cAccount(updOk) ==
    /\ phase = "RUNNING"
    /\ b2cPc = "account"
    /\ Fault(B2N(updOk))
    /\ LET n == Len(backendIn)
           frame == backendIn[n].frame
           accepted == Unwrap(OkMessage(frame))
       IN  /\ connection_logs' =
                  IncrementCounter(connection_logs,
                      IF accepted THEN "event_count" ELSE "rejected_event_count",
                      updOk)
           /\ Enqueue("b2c", n, frame)
    /\ b2cPc' = "recv"
    /\ UNCHANGED <<argVars, peerVars, storeVars, event_rejection_logs, connection_log_id,
                   openCalls, closeCalls, phase, result, c2bPc, clientIn,
                   backendIn, backendOut, clientOut, client_sender, senderFailed,
                   engineVars>>

\* backend_rx.next() yields None (ok) or a read error (msg?)
B2cEnd(ok) ==
    /\ phase = "RUNNING"
    /\ b2cPc = "recv"
    /\ Fault(B2N(ok))
    /\ FlowEnds(ok)
    /\ b2cPc' = "done"
    /\ UNCHANGED <<argVars, peerVars, storeVars, logVars, c2bPc, ioVars, engineVars>>

(***************************************************************************)
(* Sender task, lines 139-145, and teardown, lines 344-357                 *)
(***************************************************************************)
\* all senders of the channel are dropped once select! has returned
ChannelClosed == phase \in {"DRAINING", "CLOSED"}

\* a sender task that takes the newest frame of the queue
SenderWriteNewest(written) ==
    /\ client_sender = "running"
    /\ client_out # <<>>
    /\ Fault(B2N(written))
    /\ IF written
       THEN /\ clientOut' = Append(clientOut, client_out[Len(client_out)])
            /\ client_out' = SubSeq(client_out, 1, Len(client_out) - 1)
            /\ UNCHANGED <<client_sender, senderFailed>>
       ELSE /\ client_sender' = "done"
            /\ senderFailed' = TRUE
            /\ client_out' = <<>>
            /\ clientOut' = clientOut
    /\ UNCHANGED <<argVars, peerVars, storeVars, logVars, phase, result, flowVars,
                   clientIn, backendIn, backendOut, enqLog, engineVars>>

\* client_out_rx.recv() yields a frame, client_tx.send writes it
SenderWrite(written) ==
    /\ client_sender = "running"
    /\ client_out # <<>>
    /\ Fault(B2N(written))
    /\ IF written
       THEN /\ clientOut' = Append(clientOut, Head(client_out))
            /\ client_out' = Tail(client_out)
            /\ UNCHANGED <<client_sender, senderFailed>>
       ELSE /\ client_sender' = "done"
            /\ senderFailed' = TRUE
            /\ client_out' = <<>>
            /\ clientOut' = clientOut
    /\ UNCHANGED <<argVars, peerVars, storeVars, logVars, phase, result, flowVars,
                   clientIn, backendIn, backendOut, enqLog, engineVars>>

\* a sender task that stops as soon as the channel is closed, leaving
\* what is still queued
SenderExitNoDrain ==
    /\ client_sender = "running"
    /\ ChannelClosed
    /\ client_sender' = "done"
    /\ faults' = faults
    /\ UNCHANGED <<argVars, peerVars, storeVars, logVars, phase, result, flowVars,
                   clientIn, backendIn, backendOut, client_out, enqLog,
                   clientOut, senderFailed, engineVars>>

\* client_out_rx.recv() yields None: the queue is empty and closed
SenderExit ==
    /\ client_sender = "running"
    /\ client_out = <<>>
    /\ ChannelClosed
    /\ client_sender' = "done"
    /\ faults' = faults
    /\ UNCHANGED <<argVars, peerVars, storeVars, logVars, phase, result, flowVars,
                   clientIn, backendIn, backendOut, client_out, enqLog,
                   clientOut, senderFailed, engineVars>>

\* UPDATE connection_logs SET disconnected_at = datetime('now') WHERE id = ?
CloseConnection(rows, dbOk) ==
    IF dbOk /\ IsSome(rows)
    THEN Some([Unwrap(rows) EXCEPT !.disconnected_at = Some("now")])
    ELSE rows

\* client_sender.await has returned: the disconnect update, lines 347-357
Teardown(dbOk) ==
    /\ phase = "DRAINING"
    /\ client_sender = "done"
    /\ Fault(B2N(dbOk))
    /\ IF pool /\ IsSome(connection_log_id)
       THEN /\ closeCalls' = closeCalls + 1
            /\ connection_logs' = CloseConnection(connection_logs, dbOk)
       ELSE UNCHANGED <<closeCalls, connection_logs>>
    /\ phase' = "CLOSED"
    /\ result' = "ok"
    /\ UNCHANGED <<argVars, peerVars, storeVars, event_rejection_logs, connection_log_id,
                   openCalls, flowVars, ioVars, engineVars>>

\* one step of the connection, the peers sending frames of CF and BF
Step(CF, BF) ==
    \/ \E dbOk \in BOOLEAN : IpBanGate(dbOk)
    \/ \E dbOk \in BOOLEAN : OpenConnection(dbOk)
    \/ \E connected \in BOOLEAN : Dial(connected)
    \/ \E frame \in CF, dbOk \in BOOLEAN : C2bRecv(frame, dbOk)
    \/ \E logOk \in BOOLEAN, updOk \in BOOLEAN : C2bReject(logOk, updOk)
    \/ \E sent \in BOOLEAN : C2bSend(sent)
    \/ \E ok \in BOOLEAN : C2bEnd(ok)
    \/ \E frame \in BF, fail \in FailChoices, expired \in BOOLEAN :
           B2cRecv(frame, fail, expired)
    \/ \E updOk \in BOOLEAN : B2cAccount(updOk)
    \/ \E ok \in BOOLEAN : B2cEnd(ok)
    \/ \E written \in BOOLEAN : SenderWrite(written)
    \/ SenderExit
    \/ \E dbOk \in BOOLEAN : Teardown(dbOk)

\* the whole connection, every way of calling proxy_ws_with_pool
PipelineClientFrames == {ClientEvent(PkPost), ClientEvent(PkNone), BinaryFrame, CloseFrame}
PipelineBackendFrames ==
    {BackendEvent("b5", PkNone, 8), BackendEvent("b3", PkNone, 5), BackendOk(TRUE), CloseFrame}
Next == Step(PipelineClientFrames, PipelineBackendFrames)
Spec == Init /\ [][Next]_vars

\* a connection of main.rs (pool and client IP present, IP not listed)
InitStore ==
    /\ Init
    /\ pool
    /\ IsSome(client_ip)
    /\ ip_access_control = {}

\* publishing: every kind of client frame, the backend answers with OK
PublishBackendFrames == {BackendOk(TRUE), CloseFrame}
NextPublish == Step(ClientFrames, PublishBackendFrames)
SpecPublish == InitStore /\ [][NextPublish]_vars

\* filtering: every kind of backend frame, the client side only publishes
\* an EVENT that is blocked
FilterClientFrames == {ClientEvent(PkNone), CloseFrame}
NextFilter == Step(FilterClientFrames, BackendFrames)
SpecFilter == InitStore /\ [][NextFilter]_vars

\* draining: the tokio runtime keeps running the spawned sender task and
\* the function body, and every socket write and store update returns
\* (with success or with an error)
DrainClientFrames == {ClientEvent(PkNone), CloseFrame}
DrainBackendFrames == {BackendOk(TRUE), CloseFrame}
NextDrain == Step(DrainClientFrames, DrainBackendFrames)
SpecDrain ==
    /\ InitStore
    /\ [][NextDrain]_vars
    /\ WF_vars(\E written \in BOOLEAN : SenderWrite(written))
    /\ WF_vars(SenderExit)
    /\ WF_vars(\E dbOk \in BOOLEAN : Teardown(dbOk))

\* DELETE FROM filter_rules WHERE id = ?  (the admin API, while the
\* connection runs)
delete_filter(id) ==
    /\ \E r \in filter_rules : r.id = id
    /\ filter_rules' = {r \in filter_rules : r.id # id}
    /\ UNCHANGED <<argVars, peerVars, ip_access_control, safelist, req_kind_blacklist,
                   logVars, phase, result, flowVars, ioVars, engineVars, faults>>

\* rules: kind-1 events that fill the cache, reactions and reposts that
\* refer to them, and kind-9 events that the DSL rules match
K1 == BackendEventAt("n1", PkNone, 1, 100, <<>>)
K1Again == BackendEventAt("n1", PkNone, 1, 101, <<>>)
K7Hit == BackendEventAt("r1", PkNone, 7, 100, << <<"e", "n1">> >>)
K7OtherTime == BackendEventAt("r2", PkNone, 7, 101, << <<"e", "n1">> >>)
K6NoId == BackendEventAt("r3", PkNone, 6, 100, << <<"p", "n1">>, <<"e">>, <<"e", "n1">> >>)
K6SecondTag == BackendEventAt("r4", PkNone, 6, 100, << <<"e", "n0">>, <<"e", "n1">> >>)
K7Bypass == BackendEventAt("r5", PkBypass, 7, 100, << <<"e", "n1">> >>)
K7Bad == BackendEventAt("r6", PkBad, 7, 100, << <<"e", "n1">> >>)
K9 == BackendEventAt("m1", PkNone, 9, 100, <<>>)
K9Bypass == BackendEventAt("m2", PkBypass, 9, 100, <<>>)

\* FilterEngine::should_drop_backend_text called on the engine, as the
\* integration test does: one evaluation, with no client address
should_drop_backend_text(text, fail, expired) ==
    /\ pool
    /\ Len(backendIn) + Len(peer.frames) < MaxFrames
    /\ Fault(Cardinality(fail))
    /\ \E o \in {should_drop_backend_text_with_ip(filter_engine, text, None, fail, expired)} :
           /\ backendIn' = Append(backendIn,
                  [frame |-> TextFrame(text), res |-> o.res, cause |-> o.cause,
                   reason |-> o.reason, banned |-> o.banned,
                   reloaded |-> o.reloaded])
           /\ event_rejection_logs' = event_rejection_logs \o o.logs
           /\ kind1_created_at_by_id' = o.kind1
           /\ compiled_rules' = o.rules
           /\ rules_loaded_at' = o.loaded
    /\ UNCHANGED <<argVars, peerVars, storeVars, connection_logs, connection_log_id,
                   openCalls, closeCalls, phase, result, flowVars, clientIn,
                   backendOut, client_out, enqLog, clientOut, client_sender,
                   senderFailed>>

EngineFrames ==
    { K1, K1Again, K7Hit, K7OtherTime, K6NoId, K6SecondTag, K7Bypass, K7Bad,
      K9, K9Bypass, BackendOk(FALSE) }
RuleIds == {7, 3}
NextEngine ==
    \/ \E frame \in EngineFrames, fail \in FailChoices, expired \in BOOLEAN :
           should_drop_backend_text(frame.text, fail, expired)
    \/ \E id \in RuleIds : delete_filter(id)
SpecEngine == InitStore /\ [][NextEngine]_vars

\* a peer whose kind-1 events land in the cache of this connection
PeerRecvSharedCache(frame, fail, expired) ==
    /\ pool
    /\ Len(backendIn) + Len(peer.frames) < MaxFrames
    /\ Fault(Cardinality(fail))
    /\ \E o \in {should_drop_backend_text_with_ip(
                    FilterEngine(kind1_created_at_by_id, peer.filter_engine.compiled_rules,
                                 peer.filter_engine.rules_loaded_at),
                    frame.text, client_ip, fail, expired)} :
           /\ peer' = [filter_engine |-> FilterEngine(o.kind1, o.rules, o.loaded),
                       frames |-> Append(peer.frames, frame)]
           /\ kind1_created_at_by_id' = o.kind1
           /\ event_rejection_logs' = event_rejection_logs \o o.logs
    /\ UNCHANGED <<argVars, query, storeVars, connection_logs, connection_log_id,
                   openCalls, closeCalls, phase, result, flowVars, ioVars,
                   compiled_rules, rules_loaded_at, now>>

\* another connection of the same process reads an upstream text frame:
\* its own engine (FilterEngine::new of its own proxy_ws_with_pool call)
\* evaluates it against the same policy store
PeerRecv(frame, fail, expired) ==
    /\ pool
    /\ Len(backendIn) + Len(peer.frames) < MaxFrames
    /\ Fault(Cardinality(fail))
    /\ \E o \in {should_drop_backend_text_with_ip(peer.filter_engine, frame.text,
                                                 client_ip, fail, expired)} :
           /\ peer' = [filter_engine |-> FilterEngine(o.kind1, o.rules, o.loaded),
                       frames |-> Append(peer.frames, frame)]
           /\ event_rejection_logs' = event_rejection_logs \o o.logs
    /\ UNCHANGED <<argVars, query, storeVars, connection_logs, connection_log_id,
                   openCalls, closeCalls, phase, result, flowVars, ioVars,
                   engineVars, now>>

\* two connections A (the peer) and B (this one) over one policy store
PeerFrames == {K1, K1Again, K7Hit, K7OtherTime, K9}
NextPeers ==
    \/ \E frame \in PeerFrames, fail \in FailChoices, expired \in BOOLEAN :
           should_drop_backend_text(frame.text, fail, expired)
    \/ \E frame \in PeerFrames, fail \in FailChoices, expired \in BOOLEAN :
           PeerRecv(frame, fail, expired)
SpecPeers == InitStore /\ [][NextPeers]_vars

\* the cache of a connection, with a client flow that publishes kind-1 events
CacheClientFrames == {ClientEvent(PkPost), ClientEvent(PkNone), CloseFrame}
CacheBackendFrames == {K1, K1Again, K7Hit, BackendOk(TRUE)}
NextCache == Step(CacheClientFrames, CacheBackendFrames)
SpecCache == InitStore /\ [][NextCache]_vars

\* the codec: every kind of client frame that is not a decodable EVENT,
\* and a blocked EVENT; the backend answers with OK
CodecClientFrames ==
    { ClientReq, ClientReqNoSub, ClientClose, ClientUnsupported, ClientNonArray,
      ClientMalformed, ClientBadEvent, BinaryFrame, PingFrame, PongFrame,
      ClientEvent(PkNone), CloseFrame }
NextCodec == Step(CodecClientFrames, PublishBackendFrames)
SpecCodec == InitStore /\ [][NextCodec]_vars

\* time passes between two frames
Elapse ==
    /\ pool
    /\ now + TickStep <= MaxTicks * TickStep
    /\ now' = now + TickStep
    /\ UNCHANGED <<argVars, peer, query, storeVars, logVars, flowVars, ioVars,
                   engineVars, phase, result, faults>>

\* reloading: the engine evaluates frames at the times of the clock
ReloadFrames == {K9, K1, BackendEvent("b1", PkBanned, 1)}
NextReload ==
    \/ \E frame \in ReloadFrames, fail \in FailChoices :
           should_drop_backend_text(frame.text, fail, Expired(filter_engine))
    \/ Elapse
SpecReload == InitStore /\ [][NextReload]_vars

\* create_filter of the admin API, while the connection runs: the text is
\* validated and stored as an enabled rule with rule_order 0 under the next
\* row id; each body is posted once
create_filter(body) ==
    /\ validate(body.nl_text).valid
    /\ \A r \in filter_rules : r.name # body.name
    /\ \E id \in {IF filter_rules = {} THEN 1
                   ELSE 1 + (CHOOSE m \in {r.id : r \in filter_rules} :
                                 \A r \in filter_rules : r.id <= m)} :
           filter_rules' = filter_rules \cup
               {[id |-> id, name |-> body.name, parsed_json |-> body.nl_text,
                 enabled |-> 1, rule_order |-> 0]}
    /\ UNCHANGED <<argVars, peerVars, ip_access_control, safelist, req_kind_blacklist,
                   logVars, phase, result, flowVars, ioVars, engineVars, faults>>

\* the order of the checks: events to which several checks apply, with and
\* without the created rule
BannedListed == BackendEvent("o1", PkBanned, 5)
Listed == BackendEvent("o2", PkNone, 5)
ReasonFrames ==
    {BannedListed, Listed, K1, K7Hit, K7Bypass, K7Bad, K9, BackendOk(FALSE)}
NextReasons ==
    \/ \E frame \in ReasonFrames, fail \in FailChoices, expired \in BOOLEAN :
           should_drop_backend_text(frame.text, fail, expired)
    \/ \E body \in {FiveOrSeven} : create_filter(body)
SpecReasons == InitStore /\ [][NextReasons]_vars

\* create_req_kind_blacklist of the admin API, while the connection runs
create_req_kind_blacklist(body) ==
    /\ body \notin req_kind_blacklist
    /\ req_kind_blacklist' = req_kind_blacklist \cup {body}
    /\ UNCHANGED <<argVars, peerVars, ip_access_control, safelist, filter_rules,
                   logVars, phase, result, flowVars, ioVars, engineVars, faults>>

\* the cache insert: notes of an author without a safelist row, of a banned
\* author and of an author whose pubkey is not hex, all with the id that
\* the reaction K7Hit refers to, while the admin creates a rule on notes and
\* blacklists their kind
K1Banned == BackendEvent("n1", PkBanned, 1)
K1Bad == BackendEvent("n1", PkBad, 1)
InsertFrames == {K1, K1Banned, K1Bad, K7Hit}
ListNotes ==
    [kind_value |-> Some(1), kind_min |-> None, kind_max |-> None, enabled |-> 1]
NextInsert ==
    \/ \E frame \in InsertFrames, fail \in FailChoices, expired \in BOOLEAN :
           should_drop_backend_text(frame.text, fail, expired)
    \/ \E body \in {Notes} : create_filter(body)
    \/ \E body \in {ListNotes} : create_req_kind_blacklist(body)
SpecInsert == InitStore /\ [][NextInsert]_vars

\* counting: the client publishes an EVENT that the safelist blocks and one
\* that it allows, the backend answers with OK frames of every shape: the
\* event id not a string, accepted absent, accepted a string
OkNoId == TextFrame(JArr(<<JStr("OK"), JBool(TRUE), JBool(TRUE)>>))
OkNoAccepted == TextFrame(JArr(<<JStr("OK"), JStr("c1")>>))
OkTextAccepted == TextFrame(JArr(<<JStr("OK"), JStr("c1"), JStr("true")>>))
CountClientFrames == {ClientEvent(PkNone), ClientEvent(PkPost), CloseFrame}
CountBackendFrames ==
    {BackendOk(TRUE), BackendOk(FALSE), OkNoId, OkNoAccepted, OkTextAccepted, CloseFrame}
NextCount == Step(CountClientFrames, CountBackendFrames)
SpecCount == InitStore /\ [][NextCount]_vars

\* retrying: the upstream flow of a connection evaluates frames at the
\* times of the clock and the sender task writes what is queued
RetryFrames == {K9, K1, K7Hit, K1Banned}
NextRetry ==
    \/ \E dbOk \in BOOLEAN : IpBanGate(dbOk)
    \/ \E dbOk \in BOOLEAN : OpenConnection(dbOk)
    \/ \E connected \in BOOLEAN : Dial(connected)
    \/ \E frame \in RetryFrames, fail \in FailChoices :
           B2cRecv(frame, fail, Expired(filter_engine))
    \/ Elapse
    \/ \E written \in BOOLEAN : SenderWrite(written)
SpecRetry == InitStore /\ [][NextRetry]_vars

\* proxy_ws, lines 12-15: a connection without policy store and without
\* client address
proxy_ws ==
    /\ Init
    /\ ~pool
    /\ client_ip = None
NoStoreClientFrames ==
    {ClientEvent(PkNone), ClientEvent(PkPost), ClientMalformed, BinaryFrame, CloseFrame}
NoStoreBackendFrames ==
    { BackendEvent("b1", PkBanned, 1), BackendEvent("b3", PkNone, 5), K9,
      BackendOk(TRUE), TextFrame(NoticeText), CloseFrame }
NextNoStore ==
    \/ \E dbOk \in BOOLEAN : IpBanGate(dbOk)
    \/ \E dbOk \in BOOLEAN : OpenConnection(dbOk)
    \/ \E connected \in BOOLEAN : Dial(connected)
    \/ \E frame \in NoStoreClientFrames, dbOk \in BOOLEAN : C2bRecv(frame, dbOk)
    \/ \E sent \in BOOLEAN : C2bSend(sent)
    \/ \E ok \in BOOLEAN : C2bEnd(ok)
    \/ \E frame \in NoStoreBackendFrames, fail \in FailChoices, expired \in BOOLEAN :
           B2cRecv(frame, fail, expired)
    \/ \E ok \in BOOLEAN : B2cEnd(ok)
    \/ \E written \in BOOLEAN : SenderWrite(written)
    \/ SenderExit
    \/ \E dbOk \in BOOLEAN : Teardown(dbOk)
SpecNoStore == proxy_ws /\ [][NextNoStore]_vars

\* banning: upstream events of authors whose safelist rows differ in the
\* flags and in the banned column
BanFrames ==
    { BackendEvent("b1", PkBanned, 1), BackendEvent("f4", PkFlagFour, 1),
      BackendEvent("f7", PkAllFlags, 1), BackendEvent("f1", PkPost, 1),
      BackendEvent("f0", PkNone, 1) }
NextBan ==
    \E frame \in BanFrames, fail \in FailChoices, expired \in BOOLEAN :
        should_drop_backend_text(frame.text, fail, expired)
SpecBan == InitStore /\ [][NextBan]_vars

(***************************************************************************)
(* The filter query API as pure functions: Init draws a source text, the   *)
(* actions apply parse, compile, validate and matches to it                *)
(***************************************************************************)
\* conditions used as the leaves of generated expressions
AtomKind == Condition(FieldSimple("kind"), "Eq", ValueNumber(1))
AtomCreatedAt == Condition(FieldSimple("created_at"), "Gt", ValueNumber(100))
AtomContent == Condition(FieldSimple("content"), "Eq", ValueString("x"))
Atoms == {AtomKind, AtomCreatedAt, AtomContent}
AtomSource(c) ==
    CASE c = AtomKind -> "kind == 1"
      [] c = AtomCreatedAt -> "created_at > 100"
      [] c = AtomContent -> "content == \"x\""

\* the expressions with exactly n operators over the atoms
RECURSIVE ExprsWith(_)
ExprsWith(n) ==
    IF n = 0 THEN Atoms
    ELSE {ExprNot(x) : x \in ExprsWith(n - 1)}
         \cup UNION {UNION {{ExprAnd(l, r), ExprOr(l, r)} :
                               l \in ExprsWith(k), r \in ExprsWith(n - 1 - k)} :
                        k \in 0..(n - 1)}
Exprs == UNION {ExprsWith(n) : n \in 0..MaxOps}

\* binding strength of the head of an expression
Level(e) ==
    CASE e.type = "Or" -> 1 [] e.type = "And" -> 2 [] e.type = "Not" -> 3
      [] e.type = "Condition" -> 4

\* the source text of an expression, with parentheses only around an operand
\* whose head binds weaker than its position asks for
RECURSIVE Unparse(_, _)
Unparse(e, level) ==
    LET body ==
            CASE e.type = "Or" -> Unparse(e.left, 1) \o " OR " \o Unparse(e.right, 2)
              [] e.type = "And" -> Unparse(e.left, 2) \o " AND " \o Unparse(e.right, 3)
              [] e.type = "Not" -> "NOT " \o Unparse(e.expr, 3)
              [] e.type = "Condition" -> AtomSource(e)
    IN IF Level(e) < level THEN "(" \o body \o ")" ELSE body

\* sources that the lexer, the parser or the compiler rejects, each with
\* the byte offset at which its offending token starts
ErrorCases ==
    { [src |-> "", start |-> 0],
      [src |-> "kind === 6", start |-> 7],
      [src |-> "kind ! 6", start |-> 5],
      [src |-> "kind @ 6", start |-> 5],
      [src |-> "kind ==", start |-> 7],
      [src |-> "kind == 6 extra", start |-> 10],
      [src |-> "(kind == 6", start |-> 10],
      [src |-> "kind 6", start |-> 5],
      [src |-> "== 6", start |-> 0],
      [src |-> "kind == )", start |-> 8],
      [src |-> "kind in [1 2]", start |-> 11],
      [src |-> "\"abc", start |-> 0],
      [src |-> "content == \"abc", start |-> 11],
      [src |-> "tag[5] == 1", start |-> 4],
      [src |-> "tag[e].5 == 1", start |-> 7],
      [src |-> "tag[e].size == 1", start |-> 7],
      [src |-> "tag e", start |-> 4],
      [src |-> "content matches \"[invalid\"", start |-> 16],
      [src |-> "kind == 1 AND content matches \"(a\"", start |-> 30] }
ErrorSources == {c.src : c \in ErrorCases}

\* sources with the matching operators and with escapes
StringSources ==
    { "content == \"a\\qb\"", "content == \"a\\\"b\"", "content matches \"ell\"", "content contains \"HELL\"",
      "content starts_with \"he\"", "content ends_with \"LO\"" }

\* conditions with == and != over operands of different and of equal types
TypeSources ==
    {f \o " " \o o \o " " \o v :
        f \in {"kind", "content", "tag[e]"}, o \in {"==", "!="},
        v \in {"1", "\"x\"", "true", "kind", "content"}}

\* conditions over fields that do not resolve for some event or for none
AbsentFields == {"foo", "tag[x]", "tag[p].value", "npub", "referenced_created_at"}
AbsentSources ==
    {f \o " " \o o :
        f \in AbsentFields,
        o \in {"== 1", "!= 1", "> 1", "< 1", ">= 1", "<= 1", "contains \"a\"",
               "starts_with \"a\"", "ends_with \"a\"", "matches \"a\"", "in [1]",
               "not_in [1]", "not_in []", "!= \"a\"", "exists true"}}
        \cup {"NOT " \o f \o " == 1" : f \in AbsentFields}

\* conditions with in and not_in: the field and the texts of the elements
ListCases ==
    { [field |-> "kind", elems |-> <<>>],
      [field |-> "kind", elems |-> <<"6">>],
      [field |-> "kind", elems |-> <<"1", "7">>],
      [field |-> "kind", elems |-> <<"\"1\"", "1">>],
      [field |-> "kind", elems |-> <<"created_at", "7">>],
      [field |-> "kind", elems |-> <<"[1]">>],
      [field |-> "kind", elems |-> <<"true">>],
      [field |-> "content", elems |-> <<>>],
      [field |-> "content", elems |-> <<"\"x\"", "\"Hello\"">>],
      [field |-> "content", elems |-> <<"1">>],
      [field |-> "created_at", elems |-> <<"kind", "100">>],
      [field |-> "tag[e].value", elems |-> <<>>],
      [field |-> "tag[e].value", elems |-> <<"\"n1\"", "\"n3\"">>],
      [field |-> "tag[p]", elems |-> <<"true">>],
      [field |-> "foo", elems |-> <<>>] }
RECURSIVE JoinComma(_)
JoinComma(elems) ==
    IF elems = <<>> THEN ""
    ELSE IF Len(elems) = 1 THEN elems[1]
    ELSE elems[1] \o ", " \o JoinComma(Tail(elems))
InSource(c) == c.field \o " in [" \o JoinComma(c.elems) \o "]"
NotInSource(c) == c.field \o " not_in [" \o JoinComma(c.elems) \o "]"
ListSources == {InSource(c) : c \in ListCases} \cup {NotInSource(c) : c \in ListCases}

\* doubly negated sources that no generated expression gives, each with the
\* source it negates twice
DoubleNotCases ==
    { [src |-> "NOT NOT kind==1", inner |-> "kind==1"],
      [src |-> "NOT NOT foo == 1", inner |-> "foo == 1"],
      [src |-> "NOT NOT foo != 1", inner |-> "foo != 1"],
      [src |-> "not not tag[e] exists true", inner |-> "tag[e] exists true"],
      [src |-> "NOT NOT referenced_created_at < created_at",
       inner |-> "referenced_created_at < created_at"],
      [src |-> "NOT (NOT (kind == 7 OR content contains \"hell\"))",
       inner |-> "kind == 7 OR content contains \"hell\""] }
DoubleNotSources ==
    {c.src : c \in DoubleNotCases} \cup {c.inner : c \in DoubleNotCases}

\* conditions with contains, starts_with and ends_with: letters in either
\* case on both sides, and operands that are not strings
CaseSources ==
    { "content contains \"hELLO\"", "content starts_with \"HE\"",
      "content ends_with \"lo\"", "content contains \"xyz\"",
      "content contains \"a&\"", "content ends_with \"$\"",
      "content starts_with \"A$\"", "tag[e].value contains \"N\"",
      "id ends_with \"M1\"",
      "kind contains \"1\"", "content contains 1", "content starts_with true",
      "content ends_with content", "tag[e] contains \"e\"",
      "content_length starts_with \"5\"", "content ends_with [\"o\"]",
      "tag[p].count contains \"1\"" }

\* expressions that name a field several times, on either side
FieldSources ==
    { "kind == created_at AND kind == 1",
      "content == id OR pubkey == content",
      "b == a AND a == b OR NOT b exists true",
      "tag[e].value == id AND NOT tag[e].count > content_length",
      "tag[e] exists true AND tag[E] exists true OR tag[e].count >= 1",
      "referenced_created_at == created_at AND created_at < referenced_created_at",
      "kind in [kind, created_at] OR content_length == 1",
      "Kind == kind" }

\* conditions on identifiers that name no field of an event, with every
\* operator
UnknownNames == {"foo", "Kind", "ID", "Content", "Content_Length", "TAG", "Npub", "true", "_x1"}
UnknownSources ==
    {name \o " " \o o :
        name \in UnknownNames,
        o \in {"== 1", "!= 1", "> 1", "< 1", ">= 1", "<= 1", "contains \"a\"",
               "starts_with \"a\"", "ends_with \"a\"", "matches \"a\"", "in [1]",
               "not_in [1]", "exists true", "!= \"a\"", "== kind"}}

\* the legacy rule on reposts and reactions, written as a filter query
LegacyDslSource == "kind in [6,7] AND created_at == referenced_created_at"

FixedSources ==
    ErrorSources \cup StringSources \cup TypeSources \cup AbsentSources
        \cup ListSources \cup DoubleNotSources \cup CaseSources \cup FieldSources
        \cup {LegacyDslSource} \cup UnknownSources

\* every expression, its double negation, and the sources written out
QueryInputs ==
    {NewQuery(Unparse(e, 1), Some(e)) : e \in Exprs}
        \cup {NewQuery(Unparse(ExprNot(ExprNot(e)), 1), Some(ExprNot(ExprNot(e)))) :
                 e \in Exprs}
        \cup {NewQuery(input, None) : input \in FixedSources}

QueryEvent(id, pk, kind, created_at, content, tags) ==
    [id |-> id, pubkey |-> pk, created_at |-> created_at, kind |-> kind,
     tags |-> tags, content |-> content, sig |-> "sig"]
EvNote == QueryEvent("m1", PkNone, 1, 100, "Hello", <<>>)
EvReaction == QueryEvent("m2", PkBad, 7, 101, "", << <<"e", "n1">>, <<"p">> >>)
EvRepost ==
    QueryEvent("m3", PkPost, 6, 100, "x",
               << <<"e", "n2">>, <<"t", "a">>, <<"t", "b">> >>)
EvSigma == QueryEvent("m4", PkNone, 1, 102, "A" \o CapitalSigma, <<>>)
\* a reaction with the created_at of its cached target, a note with it, and
\* a repost whose first e tag has no id
EvBot == QueryEvent("m5", PkNone, 7, 100, "+", << <<"p", "x">>, <<"e", "n1">>, <<"e", "n2">> >>)
EvNoteRef == QueryEvent("m6", PkPost, 1, 100, "re", << <<"e", "n1">> >>)
EvShortTag == QueryEvent("m7", PkNone, 6, 100, "", << <<"e">>, <<"e", "n1">> >>)
QueryEvents == {EvNote, EvReaction, EvRepost, EvSigma, EvBot, EvNoteRef, EvShortTag}
QueryCaches == {EmptyMap, MapInsert(EmptyMap, "n1", 100)}

InitQuery ==
    /\ InitConnection
    /\ pool
    /\ IsSome(client_ip)
    /\ ip_access_control = {}
    /\ query \in QueryInputs

queryRest == <<argVars, peer, now, storeVars, logVars, flowVars, ioVars, engineVars,
               phase, result, faults>>

\* pub fn parse(input)
Parse ==
    /\ query.parsed = None
    /\ query' = [query EXCEPT !.parsed = Some(parse(query.input))]
    /\ UNCHANGED queryRest

\* pub fn compile(input)
Compile ==
    /\ query.parsed # None
    /\ query.compiled = None
    /\ query' = [query EXCEPT !.compiled = Some(compile(query.input))]
    /\ UNCHANGED queryRest

\* pub fn validate(input)
Validate ==
    /\ query.compiled # None
    /\ query.validated = None
    /\ query' = [query EXCEPT !.validated = Some(validate(query.input))]
    /\ UNCHANGED queryRest

\* a matches that uses up the regexes of the filter it evaluates
MatchesConsuming(event, kind1_cache) ==
    /\ query.validated # None
    /\ Unwrap(query.compiled).ok
    /\ query.matched = None
    /\ query' = [query EXCEPT
                     !.matched =
                         Some([event |-> event, kind1_cache |-> kind1_cache,
                               res |-> matches(Unwrap(query.compiled).val, event,
                                               kind1_cache)]),
                     !.compiled =
                         Some(Ok(CompiledFilter(Unwrap(query.compiled).val.ast,
                                                EmptyMap)))]
    /\ UNCHANGED queryRest

\* CompiledFilter::matches on the filter that compile returned
Matches(event, kind1_cache) ==
    /\ query.validated # None
    /\ Unwrap(query.compiled).ok
    /\ query.matched = None
    /\ query' = [query EXCEPT !.matched =
                     Some([event |-> event, kind1_cache |-> kind1_cache,
                           res |-> matches(Unwrap(query.compiled).val, event,
                                           kind1_cache)])]
    /\ UNCHANGED queryRest

\* a second call of matches on the same filter, with the same event and
\* the same cache
MatchesAgain ==
    /\ query.matched # None
    /\ query.again = None
    /\ query' = [query EXCEPT !.again =
                     Some([event |-> Unwrap(query.matched).event,
                           kind1_cache |-> Unwrap(query.matched).kind1_cache,
                           res |-> matches(Unwrap(query.compiled).val,
                                           Unwrap(query.matched).event,
                                           Unwrap(query.matched).kind1_cache)])]
    /\ UNCHANGED queryRest

NextQuery ==
    \/ Parse
    \/ Compile
    \/ Validate
    \/ \E event \in QueryEvents, kind1_cache \in QueryCaches : Matches(event, kind1_cache)
    \/ MatchesAgain
SpecQuery == InitQuery /\ [][NextQuery]_vars

(***************************************************************************)
(* Properties                                                              *)
(***************************************************************************)
Indices(seq) == 1..Len(seq)

\* the frame is a client EVENT message, and its author
IsClientEvent(frame) ==
    /\ frame.type = "Text"
    /\ parse_client_msg(frame.text).ok
    /\ parse_client_msg(frame.text).val.cmd = "Event"
ClientAuthor(frame) == parse_client_msg(frame.text).val.event.pubkey

\* the author has a safelist row with the POST_ALLOWED bit (1) set
AuthorPostAllowed(pk) ==
    /\ pubkey_hex_to_npub(pk).ok
    /\ \E r \in safelist : r.npub = NpubOf(pk) /\ r.flags % 2 = 1

\* the client frames that reached the backend socket
ForwardedClient == {backendOut[i].n : i \in Indices(backendOut)}

\* the literal text ["NOTICE","blocked: not in safelist"]
NoticeFrame ==
    [type |-> "Text",
     text |-> [j |-> "arr", a |-> <<[j |-> "str", s |-> "NOTICE"],
                                    [j |-> "str", s |-> "blocked: not in safelist"]>>]]

\* number of NOTICE frames sent on the queue / written to the client for
\* the n-th client frame
NoticesSent(n) ==
    Cardinality({i \in Indices(enqLog) : enqLog[i].src = "c2b" /\ enqLog[i].n = n})
NoticesGot(n) ==
    Cardinality({i \in Indices(clientOut) : clientOut[i].src = "c2b" /\ clientOut[i].n = n})

\* the handling of the n-th client frame, a blocked EVENT, has run to its end
RejectDone(n) == n < Len(clientIn) \/ c2bPc # "reject"

\* C1: with a policy store, a client EVENT whose author has no safelist row
\* or has the POST_ALLOWED bit clear is never written to the backend socket
C1_BlockedEventNeverForwarded ==
    pool =>
        \A n \in Indices(clientIn) :
            (IsClientEvent(clientIn[n].frame)
                /\ ~AuthorPostAllowed(ClientAuthor(clientIn[n].frame)))
            => n \notin ForwardedClient

\* a blocked EVENT was fully handled and a later frame was forwarded
C1_Witness ==
    /\ pool
    /\ Len(clientIn) = 2
    /\ IsClientEvent(clientIn[1].frame)
    /\ ~AuthorPostAllowed(ClientAuthor(clientIn[1].frame))
    /\ ForwardedClient = {2}

\* C2 as stated: once the connection has finished, even without any failure,
\* the client has received exactly one NOTICE for every blocked EVENT
C2_OneNoticePerBlockedEvent ==
    (phase = "CLOSED" /\ client_sender \in {"none", "done"} /\ faults = 0) =>
        \A n \in Indices(clientIn) :
            clientIn[n].decision = "block" => NoticesGot(n) = 1

\* C2 amended: at most one NOTICE with the literal text is sent and delivered
\* for a blocked EVENT and none for a forwarded frame; exactly one is sent
\* once the blocked EVENT's handling has run to its end, and the client has
\* received it when the connection finishes normally without a failed
\* client socket write
C2_NoticeForHandledBlock ==
    /\ \A i \in Indices(enqLog) :
           enqLog[i].src = "c2b" => enqLog[i].frame = NoticeFrame
    /\ \A n \in Indices(clientIn) :
           /\ NoticesGot(n) <= NoticesSent(n)
           /\ clientIn[n].decision = "forward" => NoticesSent(n) = 0
           /\ clientIn[n].decision = "block" =>
                  /\ NoticesSent(n) <= 1
                  /\ RejectDone(n) => NoticesSent(n) = 1
                  /\ (RejectDone(n) /\ phase = "CLOSED" /\ result = "ok"
                          /\ ~senderFailed) => NoticesGot(n) = 1

\* the client has received the NOTICE of a blocked EVENT
C2_Witness ==
    \E n \in Indices(clientIn) :
        /\ clientIn[n].decision = "block"
        /\ NoticesGot(n) = 1
        /\ phase = "CLOSED"
        /\ result = "ok"

\* the backend-origin frames written to the client socket
FromBackend(seq) == SelectSeq(seq, LAMBDA x : x.src = "b2c")

\* C3: in each direction the frames delivered to the peer are a subsequence
\* of the frames read from the other peer, in the same order
C3_DeliveredIsSubsequence ==
    /\ \A i \in Indices(backendOut) :
           /\ backendOut[i].n \in Indices(clientIn)
           /\ backendOut[i].frame = clientIn[backendOut[i].n].frame
    /\ \A i, k \in Indices(backendOut) :
           i < k => backendOut[i].n < backendOut[k].n
    /\ LET out == FromBackend(clientOut) IN
       /\ \A i \in Indices(out) :
              /\ out[i].n \in Indices(backendIn)
              /\ out[i].frame = backendIn[out[i].n].frame
       /\ \A i, k \in Indices(out) : i < k => out[i].n < out[k].n

\* two different backend frames were queued together and both reached the client
C3_Witness ==
    /\ Len(FromBackend(clientOut)) = 2
    /\ clientOut[1].frame # clientOut[2].frame
    /\ \E i \in Indices(enqLog) : enqLog[i].n = 2 /\ enqLog[i].src = "b2c"

\* the sends the channel accepted, in order
Accepted == SelectSeq(enqLog, LAMBDA x : x.accepted)
AsItems(seq) == [i \in Indices(seq) |-> Item(seq[i].src, seq[i].n, seq[i].frame)]

\* C4: the frames written to the client socket are, in order, the frames
\* enqueued on the fan-in queue (NOTICEs and backend frames alike), and the
\* client socket is written only by the sender task taking the queue's head
C4_ClientWritesInEnqueueOrder ==
    /\ [](/\ Len(clientOut) <= Len(Accepted)
          /\ clientOut = SubSeq(AsItems(Accepted), 1, Len(clientOut)))
    /\ [][clientOut' # clientOut =>
             /\ client_sender = "running"
             /\ client_out # <<>>
             /\ clientOut' = Append(clientOut, Head(client_out))
             /\ client_out' = Tail(client_out)]_vars

\* a NOTICE and a backend frame were in the queue together and both were written
C4_Witness ==
    /\ Len(clientOut) = 2
    /\ {clientOut[1].src, clientOut[2].src} = {"c2b", "b2c"}

\* C5 as stated: a connection whose log row was opened has executed
\* close_connection when it has terminated, on every path
C5_CloseOnEveryPath ==
    (phase = "CLOSED" /\ IsSome(connection_log_id)) => closeCalls = 1

\* C6 as stated: every connection executes open_connection exactly once
C6_OpenExactlyOnce ==
    (phase = "CLOSED" /\ pool /\ IsSome(client_ip) /\ faults = 0) =>
        (openCalls = 1 /\ closeCalls <= 1)

\* the client IP has a banned row in ip_access_control
IpListedBanned ==
    /\ IsSome(client_ip)
    /\ \E r \in ip_access_control : r.ip_address = Unwrap(client_ip) /\ r.banned = 1

\* C6 amended: open_connection is executed at most once: exactly once when a
\* policy store and a client IP are present and the IP gate let the
\* connection through, not at all otherwise; close_connection at most once
C6_OpenAtMostOnce ==
    /\ openCalls <= 1
    /\ closeCalls <= openCalls
    /\ phase \in {"DIALING", "RUNNING", "DRAINING"} =>
           openCalls = (IF pool /\ IsSome(client_ip) THEN 1 ELSE 0)
    /\ (~pool \/ ~IsSome(client_ip) \/ IpListedBanned) => openCalls = 0
    /\ phase \in {"IP_CHECK", "LOGGING"} => openCalls = 0

\* a connection that opened its log row and closed it
C6_Witness == phase = "CLOSED" /\ openCalls = 1 /\ closeCalls = 1

\* C7: a client EVENT whose POST_ALLOWED lookup could not be completed (store
\* query error, or pubkey not convertible to an npub) is blocked and never
\* written to the backend socket
C7_PublishFailsClosed ==
    \A n \in Indices(clientIn) :
        clientIn[n].lookup \in {"err", "npub"} =>
            /\ clientIn[n].decision = "block"
            /\ n \notin ForwardedClient

\* an EVENT of a POST_ALLOWED author whose lookup failed, and an EVENT with a
\* pubkey that is not hex, were both handled
C7_Witness ==
    /\ Len(clientIn) = 2
    /\ c2bPc = "recv"
    /\ \E n \in {1, 2} :
           /\ clientIn[n].lookup = "err"
           /\ AuthorPostAllowed(ClientAuthor(clientIn[n].frame))
    /\ \E n \in {1, 2} : clientIn[n].lookup = "npub"

\* the n-th backend frame was sent on the fan-in queue
SentToClient(n) ==
    \E i \in Indices(enqLog) :
        /\ enqLog[i].src = "b2c"
        /\ enqLog[i].n = n
        /\ enqLog[i].frame = backendIn[n].frame

\* C8: a backend text frame for which the engine returned an error is still
\* sent on the fan-in queue for the client, and the flow goes on reading
C8_ForwardFailsOpen ==
    /\ [](\A n \in Indices(backendIn) : backendIn[n].res = "err" => SentToClient(n))
    /\ [][(Len(backendIn') = Len(backendIn) + 1
              /\ backendIn'[Len(backendIn')].res = "err")
          => (phase' = "RUNNING" /\ b2cPc' = "recv")]_vars

\* a frame with an undecodable event and a frame whose store query failed
\* both reached the client
C8_Witness ==
    /\ Len(backendIn) = 2
    /\ \E n \in {1, 2} : backendIn[n].res = "err" /\ backendIn[n].cause = "decode"
    /\ \E n \in {1, 2} : backendIn[n].res = "err" /\ backendIn[n].cause = "store"
    /\ Len(FromBackend(clientOut)) = 2

\* the backend frame carries a decodable event
BackendEventOf(frame) == DecodeEvent(Unwrap(Get(frame.text.a, 2))).event
IsBackendEvent(frame) ==
    /\ frame.type = "Text"
    /\ frame.text.j = "arr"
    /\ GetStr(frame.text.a, 0) = Some("EVENT")
    /\ IsSome(Get(frame.text.a, 2))
    /\ DecodeEvent(Unwrap(Get(frame.text.a, 2))).ok

\* C9 as stated: a backend EVENT whose author the ban lookup found banned is
\* dropped, whatever the outcome of the rejection-log append
C9_BannedAlwaysDropped ==
    \A n \in Indices(backendIn) :
        backendIn[n].banned = "yes" =>
            (backendIn[n].res = "drop" /\ ~SentToClient(n))

\* the author has a safelist row marked banned
AuthorBanned(pk) ==
    /\ pubkey_hex_to_npub(pk).ok
    /\ \E r \in safelist : r.npub = NpubOf(pk) /\ r.banned = 1

\* some enabled entry lists the kind by value or by a two-sided range
KindListed(kind) ==
    \E r \in req_kind_blacklist :
        /\ r.enabled = 1
        /\ \/ r.kind_value = <<kind>>
           \/ /\ r.kind_min # <<>>
              /\ r.kind_max # <<>>
              /\ r.kind_min[1] <= kind
              /\ kind <= r.kind_max[1]

\* C10 as stated: while no store query fails, a backend EVENT whose event
\* decodes, with any pubkey string and an author who is not banned, is
\* dropped with reason kind_blacklist when an enabled entry lists its kind,
\* and never for that reason otherwise
C10_KindBlacklistDrops ==
    \A n \in Indices(backendIn) :
        (/\ pool
         /\ IsBackendEvent(backendIn[n].frame)
         /\ ~AuthorBanned(BackendEventOf(backendIn[n].frame).pubkey)
         /\ backendIn[n].cause \notin {"store", "log"})
        => IF KindListed(BackendEventOf(backendIn[n].frame).kind)
           THEN backendIn[n].res = "drop" /\ backendIn[n].reason = "kind_blacklist"
           ELSE backendIn[n].reason # "kind_blacklist"

(***************************************************************************)
(* Engine evaluations: a step that appends to backendIn is one call of     *)
(* the engine; the unprimed engine variables are its state before the call *)
(***************************************************************************)
Evaluated == Len(backendIn') = Len(backendIn) + 1
LastIn == backendIn'[Len(backendIn')]
LogsAdded == Len(event_rejection_logs') - Len(event_rejection_logs)
LastLog == event_rejection_logs'[Len(event_rejection_logs')]

\* the author's safelist row has FILTER_BYPASS (bit 2)
AuthorBypass(pk) ==
    /\ pubkey_hex_to_npub(pk).ok
    /\ \E r \in safelist : r.npub = NpubOf(pk) /\ (r.flags \div 2) % 2 = 1

\* the event's first e-tag names an id that the cache holds with the
\* event's created_at
LegacyHit(event, cache) ==
    \E i \in Indices(event.tags) :
        /\ Len(event.tags[i]) >= 1 /\ event.tags[i][1] = "e"
        /\ \A j \in 1..(i - 1) : Len(event.tags[j]) = 0 \/ event.tags[j][1] # "e"
        /\ Len(event.tags[i]) >= 2
        /\ event.tags[i][2] \in DOMAIN cache
        /\ cache[event.tags[i][2]] = event.created_at

\* an evaluation of a kind 6/7 event of an author without FILTER_BYPASS
\* that the ban, kind-blacklist and DSL checks did not drop
LegacyCase ==
    /\ Evaluated
    /\ IsBackendEvent(LastIn.frame)
    /\ BackendEventOf(LastIn.frame).kind \in {6, 7}
    /\ ~AuthorBypass(BackendEventOf(LastIn.frame).pubkey)
    /\ LastIn.reason \in {"", "bot_filter"}

EarlyReasons == {"banned_npub", "kind_blacklist"}

\* C12: an upstream EVENT of an author with FILTER_BYPASS is never dropped
\* by a DSL rule or by the legacy rule, and no such rejection is logged for
\* it; only the npub-ban and kind-blacklist checks drop it
C12_BypassNeverRuleDropped ==
    /\ \A n \in Indices(backendIn) :
           (IsBackendEvent(backendIn[n].frame)
            /\ AuthorBypass(BackendEventOf(backendIn[n].frame).pubkey))
           => (backendIn[n].res = "drop" => backendIn[n].reason \in EarlyReasons)
    /\ \A i \in Indices(event_rejection_logs) :
           AuthorBypass(event_rejection_logs[i].pubkey_hex)
           => event_rejection_logs[i].reason \in EarlyReasons

\* a kind-9 event of a bypass author passed the snapshot that then dropped
\* the same kind of event of another author
C12_Witness ==
    /\ Len(backendIn) = 2
    /\ backendIn[1].frame = K9Bypass /\ backendIn[1].res = "pass"
    /\ backendIn[2].frame = K9 /\ backendIn[2].res = "drop"
    /\ ~backendIn[2].reloaded
    /\ Len(compiled_rules) = 2

\* a repost of a bypass author passed although its first e-tag names a
\* cached id with equal created_at
C12_LegacyWitness ==
    /\ Len(backendIn) = 2
    /\ backendIn[1].frame = K1
    /\ backendIn[2].frame = K7Bypass /\ backendIn[2].res = "pass"
    /\ LegacyHit(BackendEventOf(K7Bypass), kind1_created_at_by_id)

\* the rules of the snapshot in force after the call that match the event
MatchingIds(event, cache) ==
    {compiled_rules'[i].id : i \in {j \in Indices(compiled_rules') :
                                      matches(compiled_rules'[j].filter, event, cache)}}
\* the row a rule was created with
RuleRow(id) == CHOOSE r \in FilterRuleRows : r.id = id
\* the first id of a non-empty set in (rule_order, id) order
FirstInOrder(ids) ==
    CHOOSE a \in ids : \A b \in ids \ {a} :
        \/ RuleRow(a).rule_order < RuleRow(b).rule_order
        \/ (RuleRow(a).rule_order = RuleRow(b).rule_order /\ a < b)

\* an evaluation of an event that several rules of the snapshot match
SeveralMatch ==
    /\ Evaluated
    /\ IsBackendEvent(LastIn.frame)
    /\ Cardinality(MatchingIds(BackendEventOf(LastIn.frame), kind1_created_at_by_id')) >= 2

\* the event is dropped by the first matching rule and logged once
DroppedByFirst ==
    LET ids == MatchingIds(BackendEventOf(LastIn.frame), kind1_created_at_by_id')
    IN  /\ LastIn.res = "drop"
        /\ LastIn.reason = RuleReason(FirstInOrder(ids))
        /\ LogsAdded = 1
        /\ LastLog.reason = LastIn.reason
        /\ LastLog.event_id = BackendEventOf(LastIn.frame).id

\* C13 as stated: when several rules of the snapshot match an event, it is
\* dropped with reason filter_rule:<id> of the first matching rule in
\* (rule_order, id) order, and nothing else is logged for it
C13_FirstMatchDrops ==
    [][SeveralMatch => DroppedByFirst]_vars

\* C13 (amended): this holds when the author has no FILTER_BYPASS and the
\* evaluation ends without an error; in every case at most one rejection is
\* logged per evaluation and a filter_rule reason names the first matching
\* rule
C13_FirstMatchDropsUnlessBypassed ==
    [][SeveralMatch =>
          LET event == BackendEventOf(LastIn.frame)
              ids == MatchingIds(event, kind1_created_at_by_id')
          IN  /\ (~AuthorBypass(event.pubkey) /\ LastIn.res # "err") => DroppedByFirst
              /\ (AuthorBypass(event.pubkey) \/ LastIn.res = "err") =>
                     (LastIn.res # "drop" /\ LogsAdded = 0)]_vars

\* an event that rules 7 and 3 both match was dropped by rule 7, the first
\* in order although its id is the larger one
C13_Witness ==
    /\ Len(backendIn) >= 1
    /\ backendIn[1].frame = K9
    /\ backendIn[1].res = "drop"
    /\ backendIn[1].reason = RuleReason(7)
    /\ {compiled_rules[i].id : i \in Indices(compiled_rules)} = {7, 3}
    /\ Len(event_rejection_logs) = 1

\* snap holds exactly the enabled rows of the table whose text compiles,
\* each once, with its compiled filter, in (rule_order, id) order
IsSnapshotOf(snap, table) ==
    /\ {snap[i].id : i \in Indices(snap)} =
           {r.id : r \in {t \in table : t.enabled = 1 /\ compile(t.parsed_json).ok}}
    /\ \A i \in Indices(snap) :
           \E r \in table :
               /\ r.id = snap[i].id
               /\ snap[i].name = r.name
               /\ snap[i].filter = compile(r.parsed_json).val
    /\ \A i \in Indices(snap), j \in Indices(snap) :
           i < j =>
               \E a \in table, b \in table :
                   /\ a.id = snap[i].id /\ b.id = snap[j].id
                   /\ \/ a.rule_order < b.rule_order
                      \/ (a.rule_order = b.rule_order /\ a.id < b.id)

OkFrames(acc) == {n \in Indices(backendIn) : OkMessage(backendIn[n].frame) = Some(acc)}
\* the client EVENTs blocked so far whose handling has run to its end
BlockedHandled ==
    {n \in Indices(clientIn) : clientIn[n].decision = "block" /\ RejectDone(n)}
\* the OK frames written to the client socket, in order
OkDelivered ==
    SelectSeq(clientOut, LAMBDA x : x.src = "b2c" /\ IsSome(OkMessage(x.frame)))
OkInOrder ==
    /\ \A i \in Indices(OkDelivered) :
           /\ OkDelivered[i].n \in Indices(backendIn)
           /\ OkDelivered[i].frame = backendIn[OkDelivered[i].n].frame
    /\ \A i, k \in Indices(OkDelivered) : i < k => OkDelivered[i].n < OkDelivered[k].n

\* C15 as stated: every upstream OK frame, once the flow is past it, has
\* incremented exactly one counter of the connection row by 1, event_count
\* for accepted = true and rejected_event_count otherwise, and the OK
\* frames reach the client in the order received
C15_EveryOkCounted ==
    LET inHand(n) == phase = "RUNNING" /\ b2cPc = "account" /\ n = Len(backendIn)
        past(acc) == {n \in OkFrames(acc) : ~inHand(n)}
    IN  /\ (past(TRUE) \cup past(FALSE) # {}) =>
               /\ IsSome(connection_logs)
               /\ Unwrap(connection_logs).event_count = Cardinality(past(TRUE))
               /\ Unwrap(connection_logs).rejected_event_count =
                      Cardinality(past(FALSE)) + Cardinality(BlockedHandled)
        /\ OkInOrder

\* C15 (amended): on a connection with a log row, every OK frame whose
\* accounting has run (the flow was not cancelled while the frame was in
\* hand) has incremented at most one counter by 1, the one its accepted
\* value names, and exactly one while the store updates succeed; it has
\* then been sent on the queue, and the OK frames reach the client in the
\* order received
C15_AccountedOkCounted ==
    LET done(acc) == {n \in OkFrames(acc) :
                         ~(b2cPc = "account" /\ n = Len(backendIn))}
    IN  /\ IsSome(connection_logs) =>
               LET row == Unwrap(connection_logs) IN
               /\ row.event_count <= Cardinality(done(TRUE))
               /\ row.rejected_event_count <=
                      Cardinality(done(FALSE)) + Cardinality(BlockedHandled)
               /\ faults = 0 =>
                      /\ row.event_count = Cardinality(done(TRUE))
                      /\ row.rejected_event_count =
                             Cardinality(done(FALSE)) + Cardinality(BlockedHandled)
        /\ \A n \in done(TRUE) \cup done(FALSE) : SentToClient(n)
        /\ OkInOrder

\* an accepted and a rejected OK were counted once each and both reached
\* the client in the order received
C15_Witness ==
    /\ Len(backendIn) = 2
    /\ backendIn[1].frame = BackendOk(TRUE)
    /\ backendIn[2].frame = BackendOk(FALSE)
    /\ IsSome(connection_logs)
    /\ Unwrap(connection_logs).event_count = 1
    /\ Unwrap(connection_logs).rejected_event_count = 1
    /\ Len(OkDelivered) = 2
    /\ OkDelivered[1].n = 1 /\ OkDelivered[2].n = 2

\* nothing was read from or written to either socket or the queue
NoTraffic ==
    /\ clientIn = <<>> /\ backendIn = <<>>
    /\ backendOut = <<>> /\ clientOut = <<>>
    /\ enqLog = <<>> /\ client_out = <<>>

\* C16: with a policy store, a client IP present and listed as banned, the
\* connection never gets past the IP gate: no connection-log insert, no
\* dial (the sender task is spawned right after it), no frame in either
\* direction; and when the lookup answers, the connection ends at once
C16_BannedIpDoesNothing ==
    /\ []((pool /\ IpListedBanned) =>
             /\ phase \in {"IP_CHECK", "CLOSED"}
             /\ openCalls = 0 /\ connection_logs = None /\ connection_log_id = None
             /\ client_sender = "none"
             /\ NoTraffic)
    /\ [][(pool /\ IpListedBanned /\ phase = "IP_CHECK" /\ phase' # phase
            /\ faults' = faults)
          => (phase' = "CLOSED" /\ result' = "ok")]_vars

\* the store reported the client IP banned and the connection has ended
C16_Witness ==
    /\ pool /\ IpListedBanned
    /\ phase = "CLOSED" /\ result = "ok"
    /\ faults = 0
    /\ openCalls = 0

\* C17: when the IP-ban lookup of the setup fails, the connection goes on
\* to the connection-log insert (and from there to the dial and the flows)
\* as if the IP were not banned
C17_IpLookupFailsOpen ==
    [][(pool /\ IsSome(client_ip) /\ phase = "IP_CHECK" /\ phase' # phase
        /\ faults' = faults + 1)
      => (phase' = "LOGGING" /\ result' = "none")]_vars

\* C18: once a flow has completed normally the queue is closed, and when
\* the connection then finishes, every frame sent on the queue (a Close
\* frame of the upstream flow included) has been written to the client
\* socket unless a socket write failed; and the connection does finish
C18_DrainedBeforeClosed ==
    /\ [](phase = "DRAINING" => ChannelClosed)
    /\ []((phase = "CLOSED" /\ result = "ok" /\ ~senderFailed) =>
             /\ client_out = <<>>
             /\ clientOut = AsItems(enqLog))
    /\ [][phase = "DRAINING" => enqLog' = enqLog]_vars
    /\ (phase = "DRAINING") ~> (phase = "CLOSED" /\ result = "ok")

\* the upstream flow queued a frame and then a Close and completed; both
\* frames were written during the drain and the connection finished
C18_Witness ==
    /\ phase = "CLOSED" /\ result = "ok" /\ ~senderFailed
    /\ Len(clientOut) = 2
    /\ clientOut[2].src = "b2c" /\ clientOut[2].frame = CloseFrame
    /\ b2cPc = "done"

\* some frame of the sequence is an upstream EVENT of kind 1 with the id
\* and created_at
KindOneAmong(frames, id, t) ==
    \E n \in Indices(frames) :
        /\ IsBackendEvent(frames[n])
        /\ BackendEventOf(frames[n]).kind = 1
        /\ BackendEventOf(frames[n]).id = id
        /\ BackendEventOf(frames[n]).created_at = t
\* the upstream frames this connection has read, from the first to the n-th
OwnFrames(n) == [i \in 1..n |-> backendIn[i].frame]

\* C19: each connection's cache holds only what its own upstream frames put
\* there, a legacy drop on this connection rests on a kind-1 event this
\* connection itself received, and an evaluation on one connection leaves
\* the engine of the other and the policy tables as they were; so the
\* decisions on one connection do not depend on the frames of the other
C19_CachePrivate ==
    /\ [](\A id \in DOMAIN kind1_created_at_by_id :
             KindOneAmong(OwnFrames(Len(backendIn)), id, kind1_created_at_by_id[id]))
    /\ [](\A id \in DOMAIN peer.filter_engine.kind1_created_at_by_id :
             KindOneAmong(peer.frames, id, peer.filter_engine.kind1_created_at_by_id[id]))
    /\ [](\A n \in Indices(backendIn) :
             backendIn[n].reason = "bot_filter" =>
                 LET event == BackendEventOf(backendIn[n].frame) IN
                 /\ IsSome(first_e_tag_event_id(event))
                 /\ KindOneAmong(OwnFrames(n - 1), Unwrap(first_e_tag_event_id(event)),
                                 event.created_at))
    /\ [][peer' # peer => UNCHANGED <<engineVars, backendIn, storeVars>>]_vars
    /\ [][backendIn' # backendIn => peer' = peer]_vars

\* the peer has cached the kind-1 event; the reaction to it, read by this
\* connection, passed because this connection's cache does not hold it
C19_Witness ==
    /\ peer.frames = <<K1>>
    /\ "n1" \in DOMAIN peer.filter_engine.kind1_created_at_by_id
    /\ Len(backendIn) = 1
    /\ backendIn[1].frame = K7Hit /\ backendIn[1].res = "pass"
    /\ kind1_created_at_by_id = EmptyMap

\* C20: every cache entry id -> t comes from an upstream EVENT of kind 1
\* with that id and created_at t, reading a client frame adds no entry, and
\* an entry, once present, is never removed and never changes its value
C20_CacheEntriesStable ==
    /\ [](\A id \in DOMAIN kind1_created_at_by_id :
             KindOneAmong(OwnFrames(Len(backendIn)), id, kind1_created_at_by_id[id]))
    /\ [][backendIn' = backendIn => kind1_created_at_by_id' = kind1_created_at_by_id]_vars
    /\ [][\A id \in DOMAIN kind1_created_at_by_id :
             /\ id \in DOMAIN kind1_created_at_by_id'
             /\ kind1_created_at_by_id'[id] = kind1_created_at_by_id[id]]_vars

\* the client frame is not a decodable EVENT message: a text frame that is
\* another message or does not parse, or a Binary, Ping or Pong frame
PassThrough(frame) ==
    \/ frame.type \in {"Binary", "Ping", "Pong"}
    \/ frame.type = "Text" /\ ~IsClientEvent(frame)

\* the positions of the backend socket that carry the n-th client frame
ForwardsOf(n) == {i \in Indices(backendOut) : backendOut[i].n = n}

\* the proxy is done with the n-th client frame and reads on
MovedOn(n) == n < Len(clientIn) \/ c2bPc = "recv"

\* C21: the codec drops no client frame: a text frame that is not a
\* decodable EVENT (REQ, CLOSE, unsupported command, non-array, malformed)
\* and a Binary, Ping or Pong frame never takes the blocking branch, is
\* written to the backend socket unchanged and never twice, and has been
\* written exactly once when the flow goes on to read the next frame
C21_CodecNeverDrops ==
    \A n \in Indices(clientIn) :
        PassThrough(clientIn[n].frame) =>
            /\ clientIn[n].decision = "forward"
            /\ Cardinality(ForwardsOf(n)) <= 1
            /\ \A i \in ForwardsOf(n) : backendOut[i].frame = clientIn[n].frame
            /\ MovedOn(n) => Cardinality(ForwardsOf(n)) = 1

\* a Ping and a text that is not JSON were both forwarded
C21_Witness ==
    /\ Len(clientIn) = 2
    /\ clientIn[1].frame = PingFrame
    /\ clientIn[2].frame = ClientMalformed
    /\ Len(backendOut) = 2
    /\ backendOut[1].frame = PingFrame
    /\ backendOut[2].frame = ClientMalformed
    /\ c2bPc = "recv"

\* the evaluation reached reload_rules_if_needed and no store query failed:
\* an EVENT frame whose author is not banned and whose kind is not listed
RuleStage ==
    /\ IsBackendEvent(LastIn.frame)
    /\ ~AuthorBanned(BackendEventOf(LastIn.frame).pubkey)
    /\ ~KindListed(BackendEventOf(LastIn.frame).kind)
    /\ LastIn.res # "err"

\* seconds since the last successful load, before the evaluation
SinceLoad == now - Unwrap(rules_loaded_at)

\* C22: an EVENT evaluation that reaches the rule check reloads the snapshot
\* if and only if the snapshot was never loaded or at least 30 seconds have
\* elapsed since the last successful load
C22_ReloadIffThirtySeconds ==
    [][(Evaluated /\ RuleStage) =>
          (LastIn.reloaded <=>
              (rules_loaded_at = None \/ SinceLoad >= CACHE_DURATION))]_vars

\* what the engine does: it reloads if and only if the snapshot was never
\* loaded or more than 30 seconds have elapsed, so that two successful
\* loads are more than 30 seconds apart
C22_ReloadIffMoreThanThirty ==
    [][/\ (Evaluated /\ RuleStage) =>
              (LastIn.reloaded <=>
                  (rules_loaded_at = None \/ SinceLoad > CACHE_DURATION))
       /\ (rules_loaded_at # None /\ rules_loaded_at' # rules_loaded_at) =>
              Unwrap(rules_loaded_at') - Unwrap(rules_loaded_at) > CACHE_DURATION]_vars

\* an evaluation exactly 30 seconds after the load did not reload
C22_Boundary ==
    /\ Len(backendIn) = 2
    /\ backendIn[1].reloaded
    /\ ~backendIn[2].reloaded
    /\ backendIn[2].frame = K9 /\ backendIn[2].res = "drop"
    /\ rules_loaded_at = Some(0)
    /\ now = CACHE_DURATION

\* the author has a safelist row whose flags have the bit 4 set
AuthorFlagBanned(pk) ==
    /\ pubkey_hex_to_npub(pk).ok
    /\ \E r \in safelist : r.npub = NpubOf(pk) /\ HasBit(r.flags, 4)

\* C23: an upstream EVENT, evaluated without a store error, is dropped with
\* reason banned_npub exactly when the safelist flags of its author have the
\* bit 4 set, whatever the bits 1 and 2
C23_BannedIsFlagBitFour ==
    \A n \in Indices(backendIn) :
        (IsBackendEvent(backendIn[n].frame) /\ backendIn[n].cause \notin {"store", "log"})
        => ((backendIn[n].res = "drop" /\ backendIn[n].reason = "banned_npub")
               <=> AuthorFlagBanned(BackendEventOf(backendIn[n].frame).pubkey))

\* an event of an author with flags 4 passed, and an event of an author
\* with flags 0 and the banned column set was dropped as banned_npub
C23_ColumnNotFlag ==
    /\ Len(backendIn) = 2
    /\ BackendEventOf(backendIn[1].frame).pubkey = PkFlagFour
    /\ backendIn[1].res = "pass"
    /\ BackendEventOf(backendIn[2].frame).pubkey = PkBanned
    /\ backendIn[2].res = "drop" /\ backendIn[2].reason = "banned_npub"

(***************************************************************************)
(* C24: precedence and associativity of the parser                         *)
(***************************************************************************)
\* C24: OR binds weakest, then AND, then NOT, then a primary; AND and OR
\* group to the left and a parenthesised expression is one primary: parse
\* returns, for the text of every expression written with parentheses only
\* where these rules ask for them, that very expression
C24_PrecedenceAndAssociativity ==
    IsSome(query.expr) /\ IsSome(query.parsed)
        => Unwrap(query.parsed) = Ok(Unwrap(query.expr))

\* 'a OR b AND c' was parsed as Or(a, And(b, c))
C24_Witness ==
    /\ query.input = "kind == 1 OR created_at > 100 AND content == \"x\""
    /\ query.parsed = Some(Ok(ExprOr(AtomKind, ExprAnd(AtomCreatedAt, AtomContent))))

\* 'NOT a AND b' was parsed as And(Not(a), b), and '(a OR b) AND c' as
\* And(Or(a, b), c)
C24_NotBindsTighter ==
    /\ query.input = "NOT kind == 1 AND created_at > 100"
    /\ query.parsed = Some(Ok(ExprAnd(ExprNot(AtomKind), AtomCreatedAt)))
C24_ParenthesesGroup ==
    /\ query.input = "(kind == 1 OR created_at > 100) AND content == \"x\""
    /\ query.parsed = Some(Ok(ExprAnd(ExprOr(AtomKind, AtomCreatedAt), AtomContent)))

(***************************************************************************)
(* C25: validate and compile                                               *)
(***************************************************************************)
\* C25: validate(src).valid is true exactly when compile(src) succeeds; on
\* failure validate reports the message and the position of the compile
\* error and neither AST nor fields, on success it returns the AST of the
\* compiled filter and the list of its fields and no error
C25_ValidateIffCompile ==
    IsSome(query.validated) /\ IsSome(query.compiled) =>
        LET v == Unwrap(query.validated)
            c == Unwrap(query.compiled)
        IN /\ v.valid = c.ok
           /\ ~c.ok => /\ v.error = Some(c.message)
                       /\ v.position = Some(c.position)
                       /\ v.ast = None /\ v.fields_used = None
           /\ c.ok => /\ v.ast = Some(c.val.ast)
                      /\ v.fields_used = Some(extract_fields(c.val.ast))
                      /\ v.error = None /\ v.position = None

\* a source that parses and does not compile was validated: not valid
C25_Witness ==
    /\ query.input = "content matches \"[invalid\""
    /\ IsSome(query.parsed) /\ Unwrap(query.parsed).ok
    /\ IsSome(query.compiled) /\ ~Unwrap(query.compiled).ok
    /\ IsSome(query.validated) /\ ~Unwrap(query.validated).valid

(***************************************************************************)
(* C26: == and != over operands of different types                         *)
(***************************************************************************)
\* the expression of the compiled filter, the call of matches and a
\* condition's field value in that call
QueryAst == Unwrap(query.compiled).val.ast
Matched == Unwrap(query.matched)
FieldValueOf(cond) == get_field_value(cond.field, Matched.event, Matched.kind1_cache)
\* the type of a right-hand value, a field-ref having the type it resolves to
RhsType(value) ==
    IF value.type = "Field"
    THEN LET b == get_field_value(value.field, Matched.event, Matched.kind1_cache) IN
         IF IsSome(b) THEN Unwrap(b).type ELSE "None"
    ELSE value.type
MismatchedTypes(cond) ==
    /\ IsSome(FieldValueOf(cond))
    /\ RhsType(cond.value) \notin {"None", Unwrap(FieldValueOf(cond)).type}

\* C26 as stated: a condition with == or != whose resolved field value and
\* right-hand value (a literal, or a field-ref once resolved) have different
\* types evaluates to false
C26_MismatchedTypesAreFalse ==
    IsSome(query.matched) /\ QueryAst.type = "Condition" =>
        (QueryAst.op \in {"Eq", "Ne"} /\ MismatchedTypes(QueryAst) => ~Matched.res)

\* what the code does: == over different types is false ...
C26_EqMismatchedIsFalse ==
    IsSome(query.matched) /\ QueryAst.type = "Condition" =>
        (QueryAst.op = "Eq" /\ MismatchedTypes(QueryAst) => ~Matched.res)
\* ... and != is its negation, true
C26_NeMismatchedIsTrue ==
    /\ query.input = "kind != \"x\""
    /\ IsSome(query.matched) /\ Matched.res

(***************************************************************************)
(* C27: operators over a field that does not resolve                       *)
(***************************************************************************)
\* C27: a condition with an operator other than exists whose field does
\* not resolve for the event evaluates to false, != and not_in included;
\* so for such a field NOT f == v is true where f != v is false
C27_AbsentFieldIsFalse ==
    IsSome(query.matched) =>
        /\ QueryAst.type = "Condition" =>
               (QueryAst.op # "Exists" /\ FieldValueOf(QueryAst) = None => ~Matched.res)
        /\ QueryAst.type = "Not" =>
               (/\ QueryAst.expr.type = "Condition"
                /\ QueryAst.expr.op = "Eq"
                /\ FieldValueOf(QueryAst.expr) = None
                => Matched.res)

\* 'foo != 1' was evaluated: false
C27_Witness ==
    /\ query.input = "foo != 1"
    /\ IsSome(query.matched) /\ ~Matched.res
\* 'NOT foo == 1' was evaluated: true
C27_NotEqIsTrue ==
    /\ query.input = "NOT foo == 1"
    /\ IsSome(query.matched) /\ Matched.res

(***************************************************************************)
(* C28: in and not_in                                                      *)
(***************************************************************************)
\* the result of 'field == elem' in the call of matches
EqHolds(field, elem) ==
    LET c == compile(field \o " == " \o elem) IN
    c.ok /\ matches(c.val, Matched.event, Matched.kind1_cache)
SomeElementEqual(c) == \E i \in 1..Len(c.elems) : EqHolds(c.field, c.elems[i])

\* C28: where the field resolves, 'f in [..]' is true exactly when
\* 'f == elem' is true of some element and 'f not_in [..]' exactly when of
\* none; 'f in []' is false of every event and 'f not_in []' is true of
\* every event for which f resolves
C28_ListMembership ==
    IsSome(query.matched) =>
        \A c \in ListCases :
            /\ query.input = InSource(c) =>
                   /\ IsSome(FieldValueOf(QueryAst)) => Matched.res = SomeElementEqual(c)
                   /\ c.elems = <<>> => ~Matched.res
            /\ query.input = NotInSource(c) =>
                   /\ IsSome(FieldValueOf(QueryAst)) => Matched.res = ~SomeElementEqual(c)
                   /\ c.elems = <<>> /\ IsSome(FieldValueOf(QueryAst)) => Matched.res

\* 'kind in [1, 7]' was evaluated on an event of kind 7: true
C28_Witness ==
    /\ query.input = "kind in [1, 7]"
    /\ IsSome(query.matched) /\ Matched.event = EvReaction /\ Matched.res
\* 'kind not_in []' was evaluated: true
C28_NotInEmpty ==
    /\ query.input = "kind not_in []"
    /\ IsSome(query.matched) /\ Matched.res

(***************************************************************************)
(* C29: double negation                                                    *)
(***************************************************************************)
\* the sources that the source of the query negates twice
InnerSources ==
    (IF IsSome(query.expr)
     THEN LET e == Unwrap(query.expr) IN
          IF e.type = "Not"
          THEN IF e.expr.type = "Not" THEN {Unparse(e.expr.expr, 1)} ELSE {}
          ELSE {}
     ELSE {})
    \cup {c.inner : c \in {d \in DoubleNotCases : d.src = query.input}}

\* C29: 'NOT NOT e' parses, and evaluates on every event and cache to what
\* e evaluates to
C29_DoubleNegation ==
    \A inner \in InnerSources :
        /\ IsSome(query.parsed) => Unwrap(query.parsed).ok
        /\ IsSome(query.compiled) => Unwrap(query.compiled).ok
        /\ IsSome(query.matched) =>
               LET c == compile(inner) IN
               c.ok /\ Matched.res = matches(c.val, Matched.event, Matched.kind1_cache)

\* 'NOT NOT kind==1' was evaluated on an event of kind 1: true
C29_Witness ==
    /\ query.input = "NOT NOT kind==1"
    /\ IsSome(query.matched) /\ Matched.event = EvNote /\ Matched.res

(***************************************************************************)
(* C30: the position of an error                                           *)
(***************************************************************************)
\* C30 as stated: the error of lexing, parsing or compiling a source
\* carries the byte offset at which the offending token starts
C30_PositionIsTokenStart ==
    \A c \in ErrorCases :
        query.input = c.src /\ IsSome(query.compiled) =>
            /\ ~Unwrap(query.compiled).ok
            /\ Unwrap(query.compiled).position = c.start

\* what the code does: an unterminated string that starts at offset 11 is
\* reported at 10, an invalid regex literal at offset 16 is reported at 0,
\* and a wrong tag name at offset 4 is reported at 5
C30_UnterminatedStringPosition ==
    /\ query.input = "content == \"abc"
    /\ IsSome(query.compiled)
    /\ Unwrap(query.compiled) = ParseError("Unterminated string", 10)
C30_InvalidRegexPosition ==
    /\ query.input = "content matches \"[invalid\""
    /\ IsSome(query.compiled)
    /\ ~Unwrap(query.compiled).ok /\ Unwrap(query.compiled).position = 0
C30_TagNamePosition ==
    /\ query.input = "tag[5] == 1"
    /\ IsSome(query.compiled)
    /\ Unwrap(query.compiled) = ParseError("Expected tag name", 5)
\* the errors of the parser outside the tag branch, and of the lexer outside
\* strings, do carry the offset of the offending token
OtherErrorCases ==
    {c \in ErrorCases :
        c.src \notin {"content == \"abc", "tag[5] == 1", "tag[e].5 == 1",
                      "tag[e].size == 1", "content matches \"[invalid\"",
                      "kind == 1 AND content matches \"(a\""}}
C30_OtherPositions ==
    \A c \in OtherErrorCases :
        query.input = c.src /\ IsSome(query.compiled) =>
            /\ ~Unwrap(query.compiled).ok
            /\ Unwrap(query.compiled).position = c.start

\* changing the case of every letter of a string
SwapChar(c) ==
    IF c \in UpperSet THEN LowerChar(c)
    ELSE IF c \in CharsOf(LowerLetters)
    THEN SubSeq(UpperLetters, IndexOf(LowerLetters, c), IndexOf(LowerLetters, c))
    ELSE IF c = CapitalSigma THEN SmallSigma
    ELSE IF c \in {SmallSigma, FinalSigma} THEN CapitalSigma
    ELSE c
RECURSIVE SwapCase(_)
SwapCase(s) ==
    IF Len(s) = 0 THEN "" ELSE SwapChar(SubSeq(s, 1, 1)) \o SwapCase(SubSeq(s, 2, Len(s)))
\* a call of matches on a single condition with contains, starts_with or
\* ends_with, and whether both of its operands are strings
StringCondition ==
    /\ IsSome(query.matched)
    /\ QueryAst.type = "Condition"
    /\ QueryAst.op \in {"Contains", "StartsWith", "EndsWith"}
BothStrings ==
    /\ IsSome(FieldValueOf(QueryAst))
    /\ Unwrap(FieldValueOf(QueryAst)).type = "String"
    /\ QueryAst.value.type = "String"
\* the comparison of the call again, with the field value fv and the
\* literal pattern
CompareAgain(fv, pattern) ==
    compare(Unwrap(query.compiled).val, FieldValueString(fv), QueryAst.op,
            ValueString(pattern), Matched.event, Matched.kind1_cache)
SameWhateverTheCase ==
    LET fv == Unwrap(FieldValueOf(QueryAst)).s
        pattern == QueryAst.value.s
    IN  /\ Matched.res = CompareAgain(SwapCase(fv), pattern)
        /\ Matched.res = CompareAgain(fv, SwapCase(pattern))
        /\ Matched.res = CompareAgain(SwapCase(fv), SwapCase(pattern))
HasSigma(s) == \E i \in 1..Len(s) : SubSeq(s, i, i) \in Sigmas

\* C31 as stated: contains, starts_with and ends_with give the same result
\* when the letter case of the field value or of the literal is changed,
\* and they are false when the field value or the right-hand side is not a
\* string
C31_CaseInsensitive ==
    StringCondition =>
        IF BothStrings THEN SameWhateverTheCase ELSE ~Matched.res

\* what the code does: the result is unchanged by the case of the letters
\* A to Z on either side ...
C31_AsciiCaseInsensitive ==
    StringCondition /\ BothStrings
        /\ ~HasSigma(Unwrap(FieldValueOf(QueryAst)).s) /\ ~HasSigma(QueryAst.value.s)
        => SameWhateverTheCase
\* ... the operators are false when an operand is not a string ...
C31_NonStringIsFalse ==
    StringCondition /\ ~BothStrings => ~Matched.res
\* ... and the content A-capital-sigma ("A$"), lowercased to a final
\* sigma, does not contain the literal a-small-sigma ("a&") that its own
\* lowercase letters spell
C31_FinalSigmaDiffers ==
    /\ StringCondition
    /\ query.input = "content contains \"a&\""
    /\ Matched.event = EvSigma
    /\ ~Matched.res
    /\ CompareAgain(SwapCase(EvSigma.content), QueryAst.value.s)
C31_AsciiWitness ==
    /\ StringCondition
    /\ query.input = "content contains \"hELLO\""
    /\ Matched.event = EvNote
    /\ Matched.res

\* the names of the fields that an expression refers to: the field of each
\* condition, and every field-ref of its right-hand side
RECURSIVE ValueFields(_)
ValueFields(value) ==
    CASE value.type = "Field" -> {FieldName(value.field)}
      [] value.type = "List" ->
            UNION {ValueFields(value.list[i]) : i \in 1..Len(value.list)}
      [] OTHER -> {}
RECURSIVE ReferencedFields(_)
ReferencedFields(expr) ==
    CASE expr.type \in {"And", "Or"} ->
            ReferencedFields(expr.left) \cup ReferencedFields(expr.right)
      [] expr.type = "Not" -> ReferencedFields(expr.expr)
      [] expr.type = "Condition" ->
            {FieldName(expr.field)} \cup ValueFields(expr.value)
\* the same, with the right-hand side counted only when it is a field-ref itself
RECURSIVE DirectFields(_)
DirectFields(expr) ==
    CASE expr.type \in {"And", "Or"} -> DirectFields(expr.left) \cup DirectFields(expr.right)
      [] expr.type = "Not" -> DirectFields(expr.expr)
      [] expr.type = "Condition" ->
            {FieldName(expr.field)}
                \cup (IF expr.value.type = "Field" THEN {FieldName(expr.value.field)}
                      ELSE {})
Validated == Unwrap(query.validated)
FieldsUsed == Unwrap(Validated.fields_used)
StrictlyIncreasing(v) == \A i \in 1..(Len(v) - 1) : StrLess(v[i], v[i + 1])
Elements(v) == {v[i] : i \in 1..Len(v)}

\* C32 as stated: the list of extract_fields holds the name of every field
\* that the expression refers to, field-refs of the right-hand side
\* included, in strictly increasing order, and a second call returns the
\* same list
C32_AllFieldsSortedDeduplicated ==
    IsSome(query.validated) /\ Validated.valid =>
        /\ Elements(FieldsUsed) = ReferencedFields(Unwrap(Validated.ast))
        /\ StrictlyIncreasing(FieldsUsed)
        /\ extract_fields(Unwrap(Validated.ast)) = FieldsUsed

\* what the code does: the list is strictly increasing, a second call
\* returns it again, and it holds the field of every condition and the
\* right-hand side that is a field-ref itself ...
C32_SortedDeduplicated ==
    IsSome(query.validated) /\ Validated.valid =>
        /\ Elements(FieldsUsed) = DirectFields(Unwrap(Validated.ast))
        /\ StrictlyIncreasing(FieldsUsed)
        /\ extract_fields(Unwrap(Validated.ast)) = FieldsUsed
C32_SortedWitness ==
    /\ IsSome(query.validated)
    /\ query.input = "tag[e].value == id AND NOT tag[e].count > content_length"
    /\ Validated.valid
    /\ FieldsUsed = <<"content_length", "id", "tag[e].count", "tag[e].value">>
\* ... but not a field-ref that is an element of a list
C32_ListFieldRefMissing ==
    /\ IsSome(query.validated)
    /\ query.input = "kind in [created_at, 7]"
    /\ Validated.valid
    /\ FieldsUsed = <<"kind">>

C33_EvaluationChangesNothing ==
    [][query'.matched # query.matched \/ query'.again # query.again =>
           /\ query'.compiled = query.compiled
           /\ kind1_created_at_by_id' = kind1_created_at_by_id
           /\ compiled_rules' = compiled_rules]_vars

\* the drop condition of the legacy rule, engine.rs lines 213-227: a kind of
\* 6 or 7, a first e tag with an id, the id in the cache, and the cached
\* created_at equal to that of the event
LegacyDropCondition(event, cache) ==
    /\ event.kind \in {6, 7}
    /\ IsSome(first_e_tag_event_id(event))
    /\ Unwrap(first_e_tag_event_id(event)) \in DOMAIN cache
    /\ cache[Unwrap(first_e_tag_event_id(event))] = event.created_at
\* the legacy rule of the engine drops the event, the store answering
LegacyRuleDrops(event, cache) ==
    LegacyRule(event, None, {}, cache, <<>>, None).res = "drop"
NoBypass(event) ==
    is_filter_bypass(event.pubkey, TRUE).ok /\ ~is_filter_bypass(event.pubkey, TRUE).val

\* C34: the filter kind in [6,7] AND created_at == referenced_created_at
\* matches an event with a cache exactly when the drop condition of the
\* legacy rule holds of them, which is when the legacy rule drops the event
\* of an author without bypass
C34_DslRuleIsLegacyRule ==
    IsSome(query.matched) /\ query.input = LegacyDslSource =>
        /\ Matched.res = LegacyDropCondition(Matched.event, Matched.kind1_cache)
        /\ NoBypass(Matched.event) =>
               (Matched.res = LegacyRuleDrops(Matched.event, Matched.kind1_cache))
C34_Witness ==
    /\ IsSome(query.matched)
    /\ query.input = LegacyDslSource
    /\ Matched.event = EvBot
    /\ NoBypass(EvBot)
    /\ Matched.res
    /\ LegacyRuleDrops(EvBot, Matched.kind1_cache)
\* the cases without a drop: a cached target with another created_at, a
\* target that is not cached, a first e tag without an id, and a note
C34_NoMatchCases ==
    /\ IsSome(query.matched)
    /\ query.input = LegacyDslSource
    /\ Matched.kind1_cache = MapInsert(EmptyMap, "n1", 100)
    /\ Matched.event \in {EvReaction, EvRepost, EvShortTag, EvNoteRef}
    /\ ~Matched.res

\* the names that parse_field and get_field_value know
KnownNames ==
    {"id", "pubkey", "npub", "kind", "created_at", "content", "content_length",
     "referenced_created_at", "tag"}
\* a condition whose field is an identifier outside the known names
UnknownFieldCondition(expr) ==
    /\ expr.type = "Condition"
    /\ expr.field.type = "Simple"
    /\ expr.field.name \notin KnownNames

\* C39: validate accepts a condition on an identifier that is none of the
\* known field names, in any letter case, and the compiled condition is
\* false for every event, cache and operator, exists included
C39_UnknownFieldIsValidAndFalse ==
    /\ IsSome(query.validated) /\ query.input \in UnknownSources =>
           /\ Validated.valid
           /\ UnknownFieldCondition(Unwrap(Validated.ast))
           /\ \E name \in UnknownNames :
                  /\ Unwrap(Validated.ast).field.name = name
                  /\ SubSeq(query.input, 1, Len(name) + 1) = name \o " "
    /\ IsSome(query.matched) /\ UnknownFieldCondition(QueryAst) => ~Matched.res
C39_Witness ==
    /\ IsSome(query.matched)
    /\ query.input = "Kind exists true"
    /\ Validated.valid
    /\ Matched.event = EvNote
    /\ ~Matched.res
C39_NegatedOperators ==
    /\ IsSome(query.matched)
    /\ query.input \in {"Kind != 1", "foo not_in [1]", "true == 1"}
    /\ Matched.event = EvNote
    /\ ~Matched.res

\* the reasons of the first check that applies to an event, in the order npub
\* ban, kind blacklist, rules of the snapshot in force after the call,
\* legacy rule; the last two do not apply to an author with FILTER_BYPASS
FirstApplicableReasons(event) ==
    IF AuthorBanned(event.pubkey) THEN {"banned_npub"}
    ELSE IF KindListed(event.kind) THEN {"kind_blacklist"}
    ELSE IF AuthorBypass(event.pubkey) THEN {}
    ELSE IF MatchingIds(event, kind1_created_at_by_id') # {}
    THEN {RuleReason(id) : id \in MatchingIds(event, kind1_created_at_by_id')}
    ELSE IF event.kind \in {6, 7} /\ LegacyHit(event, kind1_created_at_by_id')
    THEN {"bot_filter"}
    ELSE {}

\* C35: a call of the engine on an upstream text frame returns drop if and
\* only if it appended exactly one rejection record, which is for the event
\* of the frame and carries the reason of the first applicable check in the
\* order banned_npub, kind_blacklist, filter_rule:<id>, bot_filter; a call
\* that passes the frame or ends with an error appends nothing
C35_DropIffOneRecord ==
    [][Evaluated =>
          /\ SubSeq(event_rejection_logs', 1, Len(event_rejection_logs))
                 = event_rejection_logs
          /\ LogsAdded \in {0, 1}
          /\ (LastIn.res = "drop") <=> (LogsAdded = 1)
          /\ LastIn.res = "drop" =>
                 /\ IsBackendEvent(LastIn.frame)
                 /\ LastLog.event_id = BackendEventOf(LastIn.frame).id
                 /\ LastLog.reason = LastIn.reason
                 /\ LastLog.reason \in FirstApplicableReasons(BackendEventOf(LastIn.frame))]_vars
\* a banned author's event of a blacklisted kind that the created rule
\* matches was dropped as banned_npub, and a reaction that the created rule
\* and the legacy rule both apply to was dropped by the rule
C35_Witness ==
    /\ Len(backendIn) = 2
    /\ \E r \in filter_rules : r.parsed_json = "kind in [5, 7]"
    /\ backendIn[1].frame = BannedListed
    /\ backendIn[1].res = "drop" /\ backendIn[1].reason = "banned_npub"
    /\ backendIn[2].frame = Listed
    /\ backendIn[2].res = "drop" /\ backendIn[2].reason = "kind_blacklist"
    /\ Len(event_rejection_logs) = 2
    /\ event_rejection_logs[1].reason = "banned_npub"
    /\ event_rejection_logs[2].reason = "kind_blacklist"
C35_RuleBeforeLegacy ==
    /\ Len(backendIn) = 2
    /\ backendIn[1].frame = K1 /\ backendIn[1].res = "pass"
    /\ backendIn[2].frame = K7Hit
    /\ backendIn[2].res = "drop" /\ backendIn[2].reason = RuleReason(9)
    /\ LegacyHit(BackendEventOf(K7Hit), kind1_created_at_by_id)
    /\ Len(event_rejection_logs) = 1
C35_ErrorAppendsNothing ==
    /\ Len(backendIn) = 2
    /\ backendIn[1].frame = K1
    /\ backendIn[2].frame = K7Hit
    /\ backendIn[2].res = "err" /\ backendIn[2].cause = "log"
    /\ event_rejection_logs = <<>>

\* the call of the engine on the frame of this step with the queries of
\* fail failing, and whether the step is that call
CallOnLast(fail, expired) ==
    should_drop_backend_text_with_ip(filter_engine, LastIn.frame.text, None, fail, expired)
StepIs(o) ==
    /\ LastIn.res = o.res /\ LastIn.cause = o.cause /\ LastIn.reason = o.reason
    /\ LastIn.banned = o.banned /\ LastIn.reloaded = o.reloaded
    /\ kind1_created_at_by_id' = o.kind1
    /\ compiled_rules' = o.rules
    /\ rules_loaded_at' = o.loaded
    /\ event_rejection_logs' = event_rejection_logs \o o.logs
\* the npub-ban and the kind-blacklist checks both answered, with no
\* failing query, that the author is not banned and the kind not listed
PassedEarlyChecks(event, fail) ==
    /\ pubkey_hex_to_npub(event.pubkey).ok
    /\ "banned" \notin fail /\ ~AuthorBanned(event.pubkey)
    /\ "kind" \notin fail /\ ~KindListed(event.kind)

\* C36: a call of the engine on a kind-1 event inserts the event into the
\* cache exactly when the npub-ban and kind-blacklist checks passed it,
\* whatever the rules, the bypass lookup and the log insert do afterwards;
\* otherwise the call leaves the cache as it was
C36_CachedIffPassedEarlyChecks ==
    [][Evaluated /\ IsBackendEvent(LastIn.frame)
           /\ BackendEventOf(LastIn.frame).kind = 1 =>
          \A fail \in FailChoices, expired \in BOOLEAN :
              StepIs(CallOnLast(fail, expired)) =>
                  kind1_created_at_by_id' =
                      IF PassedEarlyChecks(BackendEventOf(LastIn.frame), fail)
                      THEN MapInsert(kind1_created_at_by_id,
                                     BackendEventOf(LastIn.frame).id,
                                     BackendEventOf(LastIn.frame).created_at)
                      ELSE kind1_created_at_by_id]_vars
\* a note that the created rule dropped is in the cache and made the legacy
\* rule drop the reaction to it
C36_Witness ==
    /\ Len(backendIn) = 2
    /\ backendIn[1].frame = K1
    /\ backendIn[1].res = "drop" /\ backendIn[1].reason = RuleReason(9)
    /\ backendIn[2].frame = K7Hit
    /\ backendIn[2].res = "drop" /\ backendIn[2].reason = "bot_filter"
    /\ "n1" \in DOMAIN kind1_created_at_by_id
\* the same after a note whose reload of the rules failed
C36_CachedAfterError ==
    /\ Len(backendIn) = 2
    /\ backendIn[1].frame = K1
    /\ backendIn[1].res = "err" /\ backendIn[1].cause = "store"
    /\ backendIn[2].frame = K7Hit
    /\ backendIn[2].res = "drop" /\ backendIn[2].reason = "bot_filter"
\* notes dropped as banned and as blacklisted are not in the cache, and the
\* reaction to them passed
C36_BannedNotCached ==
    /\ Len(backendIn) = 2
    /\ backendIn[1].frame = K1Banned
    /\ backendIn[1].res = "drop" /\ backendIn[1].reason = "banned_npub"
    /\ backendIn[2].frame = K7Hit /\ backendIn[2].res = "pass"
    /\ kind1_created_at_by_id = EmptyMap
C36_BlacklistedNotCached ==
    /\ Len(backendIn) = 2
    /\ backendIn[1].frame = K1
    /\ backendIn[1].res = "drop" /\ backendIn[1].reason = "kind_blacklist"
    /\ backendIn[2].frame = K7Hit /\ backendIn[2].res = "pass"
    /\ kind1_created_at_by_id = EmptyMap

\* an upstream frame ["OK", <string>, ...]
IsOkFrame(frame) ==
    /\ frame.type = "Text" /\ frame.text.j = "arr"
    /\ Len(frame.text.a) >= 2
    /\ frame.text.a[1] = JStr("OK")
    /\ frame.text.a[2].j = "str"
\* its accepted field is the boolean true
AcceptedTrue(frame) == Len(frame.text.a) >= 3 /\ frame.text.a[3] = JBool(TRUE)
\* the flow awaits the counter UPDATE of the upstream frame n
AwaitsUpdate(n) == b2cPc = "account" /\ n = Len(backendIn)
\* the upstream OK frames read so far, by their accepted field, and those
\* among them whose counter UPDATE has run
OkRead(acc) ==
    {n \in Indices(backendIn) :
        IsOkFrame(backendIn[n].frame) /\ AcceptedTrue(backendIn[n].frame) = acc}
OkCounted(acc) == {n \in OkRead(acc) : ~AwaitsUpdate(n)}
\* the client EVENTs the safelist check has blocked so far
BlockedRead == {n \in Indices(clientIn) : clientIn[n].decision = "block"}
\* the connection has a log row and no store or socket operation has failed
OpenRowNoFailure == IsSome(connection_log_id) /\ IsSome(connection_logs) /\ faults = 0
Counter(column) == Unwrap(connection_logs)[column]

C37_NoIdNotCounted ==
    /\ OpenRowNoFailure
    /\ Len(backendIn) = 2
    /\ backendIn[1].frame = BackendOk(TRUE) /\ backendIn[2].frame = OkNoId
    /\ Counter("event_count") = 1
    /\ Counter("rejected_event_count") = 0
\* the client closed while the UPDATE of an accepted OK was awaited: the
\* connection is over and the frame was not counted
C37_CancelledNotCounted ==
    /\ OpenRowNoFailure
    /\ phase = "CLOSED"
    /\ Len(backendIn) = 1 /\ backendIn[1].frame = BackendOk(TRUE)
    /\ b2cPc = "account"
    /\ Counter("event_count") = 0

\* the engine wants a reload: the snapshot was never loaded or is older
\* than the cache duration
ShouldReload(loaded) == loaded = None \/ now - Unwrap(loaded) > CACHE_DURATION
\* the call of the engine that the upstream flow made on the last frame
FlowCallOnLast(fail) ==
    should_drop_backend_text_with_ip(filter_engine, LastIn.frame.text, client_ip,
                                     fail, Expired(filter_engine))
\* the last frame was sent on the fan-in queue in this step
EnqueuedInStep ==
    /\ Len(enqLog') = Len(enqLog) + 1
    /\ enqLog'[Len(enqLog')].src = "b2c"
    /\ enqLog'[Len(enqLog')].n = Len(backendIn')
    /\ enqLog'[Len(enqLog')].frame = LastIn.frame

C38_RetriedAtNextEvent ==
    /\ Len(backendIn) = 2
    /\ backendIn[1].frame = K9
    /\ backendIn[1].res = "err" /\ backendIn[1].cause = "store" /\ ~backendIn[1].reloaded
    /\ backendIn[2].frame = K9
    /\ backendIn[2].reloaded /\ backendIn[2].reason = RuleReason(7)
    /\ rules_loaded_at # None
\* the event after the failed fetch was dropped for its banned author
\* before the rule check, and no reload was attempted for it
C38_NoRetryForBannedAuthor ==
    /\ Len(backendIn) = 2
    /\ backendIn[1].frame = K9
    /\ backendIn[1].res = "err" /\ backendIn[1].cause = "store" /\ ~backendIn[1].reloaded
    /\ backendIn[2].frame = K1Banned /\ backendIn[2].reason = "banned_npub"
    /\ faults = 1
    /\ rules_loaded_at = None

\* C40: on a connection without policy store, no client frame is blocked
\* or looked up: the frames written to the upstream are the client frames
\* read, verbatim and in order, all of them but at most the last one (in
\* hand, or lost with the connection when its write failed or the other
\* flow ended); every upstream frame read was put on the queue for the
\* client in the step that read it, with no call of the engine; the queue
\* was given nothing else (no NOTICE of the proxy); and no connection row,
\* rejection log or counter was written
C40_NoStoreForwardsEverything ==
    /\ \A n \in Indices(clientIn) :
           clientIn[n].decision = "forward" /\ clientIn[n].lookup = "none"
    /\ c2bPc # "reject"
    /\ Len(backendOut) \in {Len(clientIn), Len(clientIn) - 1}
    /\ \A i \in Indices(backendOut) :
           backendOut[i].n = i /\ backendOut[i].frame = clientIn[i].frame
    /\ (c2bPc = "recv" => Len(backendOut) = Len(clientIn))
    /\ \A n \in Indices(backendIn) :
           /\ backendIn[n].res = "none" /\ backendIn[n].reason = ""
           /\ ~backendIn[n].reloaded
    /\ Len(enqLog) = Len(backendIn)
    /\ \A i \in Indices(enqLog) :
           /\ enqLog[i].src = "b2c" /\ enqLog[i].n = i
           /\ enqLog[i].frame = backendIn[i].frame
    /\ b2cPc # "account"
    /\ filter_engine = new
    /\ event_rejection_logs = <<>>
    /\ connection_logs = None /\ connection_log_id = None
    /\ openCalls = 0 /\ closeCalls = 0

\* the EVENT of an author without safelist row was written to the upstream
\* and the EVENT of a banned author, read from the upstream, to the client
C40_Witness ==
    /\ ~pool
    /\ Len(clientIn) = 1 /\ clientIn[1].frame = ClientEvent(PkNone)
    /\ Len(backendOut) = 1 /\ backendOut[1].frame = ClientEvent(PkNone)
    /\ Len(backendIn) = 1 /\ backendIn[1].frame = BackendEvent("b1", PkBanned, 1)
    /\ Len(clientOut) = 1 /\ clientOut[1].frame = BackendEvent("b1", PkBanned, 1)
    /\ phase = "RUNNING"
\* the connection is over after an accepted OK and a NOTICE of the upstream:
\* both were written to the client and nothing was counted
C40_OkNotCounted ==
    /\ ~pool
    /\ Len(backendIn) = 2
    /\ backendIn[1].frame = BackendOk(TRUE) /\ backendIn[2].frame = TextFrame(NoticeText)
    /\ Len(clientOut) = 2
    /\ phase = "CLOSED" /\ result = "ok"
    /\ connection_logs = None
====
